---- MODULE Spec2Model ----
(***************************************************************************)
(* A model of the catalog client and the pure helpers of the pipeline      *)
(* drivers (cmd/create_iceberg_tables, cmd/csv_to_parquet and the          *)
(* parquet_to_iceberg variant):                                            *)
(*   - checkCatalogHTTP / waitForCatalog, the readiness poll;              *)
(*   - createNamespace / createTable, the two catalog POSTs;               *)
(*   - convertDuckDBTypeToIceberg, the type-string mapping;                *)
(*   - sanitizeTableName, the name sanitizer.                              *)
(* Go strings that the code inspects character by character are modelled   *)
(* as sequences of one-character strings.                                  *)
(***************************************************************************)
EXTENDS Integers, Sequences, FiniteSets, TLC

VARIABLES
    \* waitForCatalog
    maxRetries,   \* the maxRetries argument
    script,       \* what the catalog would answer to the 1st, 2nd, ... probe
    i,            \* the loop variable of waitForCatalog
    wpc,          \* where the call is: "loop", "sleep", "done", "idle"
    werr,         \* the error waitForCatalog returned (Nil on success)
    probeLog,     \* one record per checkCatalogHTTP call: the response, the error
    sleepLog,     \* one entry per time.Sleep call: the seconds slept
    \* createNamespace / createTable against the REST catalog
    catalogKind,  \* the catalog at the other end: "conforming", "arbitrary", "none"
    nsStore,      \* the namespaces the catalog holds, in creation order
    tblStore,     \* the tables the catalog holds, as <<namespace, table>> pairs
    calls,        \* one record per POST: the operation, its names, the response, the error
    \* convertDuckDBTypeToIceberg
    duckdbType,   \* the type string DESCRIBE reported
    icebergType,  \* the token it was converted to
    tpc,          \* "start", "done", "idle"
    \* sanitizeTableName
    filePath,     \* the path handed to sanitizeTableName
    tableName,    \* sanitizeTableName(filePath)
    tableName2,   \* sanitizeTableName(tableName)
    spc,          \* "start", "once", "twice", "idle"
    \* findCSVFiles / findParquetFiles
    tree,         \* the directory tree under the root
    targetExt,    \* the extension the callback compares with
    found,        \* the paths returned
    ferr,         \* whether an error was returned with them
    fpc,          \* "start", "done", "idle"
    \* the drivers (func main of each program)
    driver,       \* which program runs, "none" when none does
    dpc,          \* the statement of main the run is at
    fi,           \* index of the file the loop is at
    columns,      \* what DESCRIBE returned for the current file
    icebergSchema, \* the schema built for the current file
    attempts,     \* the files whose loop iteration has begun, in order
    tables,       \* the tables the engine holds
    sqlLog,       \* the statements executed on the engine
    posts,        \* the POST requests sent to the catalog
    dirsMade,     \* the directories created
    outFiles,     \* the outputs an export has written
    printed,      \* what was printed or logged
    successCount, \* successCount of the catalog drivers
    exitCode,     \* -1 while running, then the exit status
    fatal         \* what log.Fatal was called for, "none" if it was not

waitVars == <<maxRetries, script, i, wpc, werr, probeLog, sleepLog>>

restVars == <<catalogKind, nsStore, tblStore, calls>>

typeVars == <<duckdbType, icebergType, tpc>>

sanVars == <<filePath, tableName, tableName2, spc>>

findVars == <<tree, targetExt, found, ferr, fpc>>

driverVars == <<driver, dpc, fi, columns, icebergSchema, attempts, tables, sqlLog, posts, dirsMade,
                outFiles, printed, successCount, exitCode, fatal>>

vars == <<waitVars, restVars, typeVars, sanVars, findVars, driverVars>>

----------------------------------------------------------------------------
(* Bounds of the model *)

MaxRetriesBound == 3

MaxCalls == 2

MaxTypeLen == 4

MaxPathLen == 4

MaxTreeSize == 5

MaxRows == 11

----------------------------------------------------------------------------
(* Go error values: nil, or an error with its text as a sequence of the    *)
(* pieces fmt.Errorf put together.                                          *)

Nil == [nil |-> TRUE, text |-> <<>>]

Errorf(pieces) == [nil |-> FALSE, text |-> pieces]

(* HTTP exchanges: the transport fails, or a response with a status code   *)
(* and a body comes back.                                                   *)

TransportError == [transport |-> FALSE, status |-> 0, body |-> ""]

Http(status, body) == [transport |-> TRUE, status |-> status, body |-> body]

StatusOK == 200

ProbeStatuses == {200, 204, 301, 404, 500}

ProbeResponses == {TransportError} \cup {Http(s, "") : s \in ProbeStatuses}

----------------------------------------------------------------------------
(* checkCatalogHTTP: GET {catalogURL}/v1/config *)

checkCatalogHTTP_Lax(resp) ==
    IF ~resp.transport
    THEN Errorf(<<"HTTP request failed: ", "transport">>)
    ELSE IF resp.status < 200 \/ resp.status >= 300
         THEN Errorf(<<"HTTP status: ", ToString(resp.status)>>)
         ELSE Nil

checkCatalogHTTP_IgnoreStatus(resp) ==
    IF ~resp.transport
    THEN Errorf(<<"HTTP request failed: ", "transport">>)
    ELSE Nil

checkCatalogHTTP(resp) ==
    IF ~resp.transport
    THEN Errorf(<<"HTTP request failed: ", "transport">>)
    ELSE IF resp.status # StatusOK
         THEN Errorf(<<"HTTP status: ", ToString(resp.status)>>)
         ELSE Nil

----------------------------------------------------------------------------
(* waitForCatalog *)

SleepSeconds == 2

LoopCond_OffByOne(idx, retries) == idx <= retries

\* for i := 0; i < maxRetries; i++
LoopCond(idx, retries) == idx < retries

SleepCond_Always(idx, retries) == TRUE

\* else if i < maxRetries-1
SleepCond(idx, retries) == idx < retries - 1

\* time.Sleep(2 * time.Second)
SleepInterval(idx) == SleepSeconds

ExhaustedError(retries) ==
    Errorf(<<"catalog HTTP endpoint not responding after ", ToString(retries), " attempts">>)

WaitIdle ==
    /\ maxRetries = 0
    /\ script = <<>>
    /\ i = 0
    /\ wpc = "idle"
    /\ werr = Nil
    /\ probeLog = <<>>
    /\ sleepLog = <<>>

WaitInit ==
    /\ maxRetries \in 0..MaxRetriesBound
    /\ script \in [1..(maxRetries + 1) -> ProbeResponses]
    /\ i = 0
    /\ wpc = "loop"
    /\ werr = Nil
    /\ probeLog = <<>>
    /\ sleepLog = <<>>

\* One iteration of the loop up to the sleep: the probe and what follows it.
WaitProbe ==
    /\ wpc = "loop"
    /\ LoopCond(i, maxRetries)
    /\ Len(probeLog) < Len(script)
    /\ LET resp == script[Len(probeLog) + 1]
           err  == checkCatalogHTTP(resp)
       IN  /\ probeLog' = Append(probeLog, [resp |-> resp, err |-> err])
           /\ IF err = Nil
              THEN /\ wpc' = "done"
                   /\ werr' = Nil
                   /\ i' = i
              ELSE IF SleepCond(i, maxRetries)
                   THEN /\ wpc' = "sleep"
                        /\ UNCHANGED <<werr, i>>
                   ELSE /\ wpc' = "loop"
                        /\ i' = i + 1
                        /\ UNCHANGED werr
    /\ UNCHANGED <<maxRetries, script, sleepLog, restVars, typeVars, sanVars, findVars, driverVars>>

\* time.Sleep, then i++
WaitSleep ==
    /\ wpc = "sleep"
    /\ sleepLog' = Append(sleepLog, SleepInterval(i))
    /\ i' = i + 1
    /\ wpc' = "loop"
    /\ UNCHANGED <<maxRetries, script, werr, probeLog, restVars, typeVars, sanVars, findVars, driverVars>>

\* the loop ends without a successful probe
WaitExhausted ==
    /\ wpc = "loop"
    /\ ~LoopCond(i, maxRetries)
    /\ wpc' = "done"
    /\ werr' = ExhaustedError(maxRetries)
    /\ UNCHANGED <<maxRetries, script, i, probeLog, sleepLog, restVars, typeVars, sanVars, findVars, driverVars>>

----------------------------------------------------------------------------
(* The REST catalog, as the client sees it.  A conforming catalog answers  *)
(* a namespace POST with 200 or 201 when the namespace is new and with 409 *)
(* when it exists, and a table POST likewise (404 when the namespace is    *)
(* unknown); an arbitrary one may answer anything, or not at all.          *)

PostStatuses == {200, 201, 204, 400, 404, 409, 500}

Bodies == {"", "{\"error\":{\"message\":\"boom\"}}"}

PostResponses == {TransportError} \cup {Http(s, b) : s \in PostStatuses, b \in Bodies}

NamespaceNames == {"my_data", "other"}

TableNames == {"transactions"}

Count(seq, x) == Cardinality({j \in DOMAIN seq : seq[j] = x})

Holds(seq, x) == \E j \in DOMAIN seq : seq[j] = x

\* the answers a catalog of this kind may give to POST /v1/namespaces
NamespaceAnswers(kind, store, ns) ==
    IF kind = "conforming"
    THEN IF Holds(store, ns)
         THEN {Http(409, "{\"error\":{\"message\":\"Namespace already exists\"}}")}
         ELSE {Http(200, ""), Http(201, "")}
    ELSE PostResponses

\* the answers a catalog of this kind may give to POST /v1/namespaces/{ns}/tables
TableAnswers(kind, nss, tbls, ns, tbl) ==
    IF kind = "conforming"
    THEN IF ~Holds(nss, ns)
         THEN {Http(404, "{\"error\":{\"message\":\"Namespace does not exist\"}}")}
         ELSE IF Holds(tbls, <<ns, tbl>>)
              THEN {Http(409, "{\"error\":{\"message\":\"Table already exists\"}}")}
              ELSE {Http(200, ""), Http(201, "")}
    ELSE PostResponses

\* what a conforming catalog holds after it gave this answer
StoreAfter(kind, store, item, resp) ==
    IF kind = "conforming" /\ resp.transport /\ resp.status \in {200, 201}
    THEN Append(store, item)
    ELSE store

----------------------------------------------------------------------------
(* createNamespace and createTable: the error each returns for a response. *)
(* json.Marshal cannot fail on these payloads (strings, ints and bools).   *)

createNamespace_No409(resp) ==
    IF ~resp.transport
    THEN Errorf(<<"failed to create namespace: ", "transport">>)
    ELSE IF resp.status # 200 /\ resp.status # 201
         THEN Errorf(<<"failed to create namespace, status: ",
                       ToString(resp.status), ", body: ", resp.body>>)
         ELSE Nil

createNamespace_Any2xx(resp) ==
    IF ~resp.transport
    THEN Errorf(<<"failed to create namespace: ", "transport">>)
    ELSE IF resp.status = 409
         THEN Nil
         ELSE IF resp.status < 200 \/ resp.status >= 300
              THEN Errorf(<<"failed to create namespace, status: ",
                            ToString(resp.status), ", body: ", resp.body>>)
              ELSE Nil

createNamespace(resp) ==
    IF ~resp.transport
    THEN Errorf(<<"failed to create namespace: ", "transport">>)
    ELSE IF resp.status = 409
         THEN Nil
         ELSE IF resp.status # 200 /\ resp.status # 201
              THEN Errorf(<<"failed to create namespace, status: ",
                            ToString(resp.status), ", body: ", resp.body>>)
              ELSE Nil

createTable_Accept409(resp) ==
    IF ~resp.transport
    THEN Errorf(<<"failed to create table: ", "transport">>)
    ELSE IF resp.status = 409
         THEN Nil
         ELSE IF resp.status # 200 /\ resp.status # 201
              THEN Errorf(<<"failed to create table, status: ",
                            ToString(resp.status), ", body: ", resp.body>>)
              ELSE Nil

createTable(resp) ==
    IF ~resp.transport
    THEN Errorf(<<"failed to create table: ", "transport">>)
    ELSE IF resp.status # 200 /\ resp.status # 201
         THEN Errorf(<<"failed to create table, status: ",
                       ToString(resp.status), ", body: ", resp.body>>)
         ELSE Nil

RestIdle ==
    /\ catalogKind = "none"
    /\ nsStore = <<>>
    /\ tblStore = <<>>
    /\ calls = <<>>

RestInit ==
    /\ catalogKind \in {"conforming", "arbitrary"}
    /\ nsStore = <<>>
    /\ tblStore = <<>>
    /\ calls = <<>>

\* a call of createNamespace(catalogURL, ns) and the catalog's answer to it
CallCreateNamespace ==
    /\ catalogKind # "none"
    /\ Len(calls) < MaxCalls
    /\ \E ns \in NamespaceNames :
         \E resp \in NamespaceAnswers(catalogKind, nsStore, ns) :
            /\ calls' = Append(calls, [op |-> "createNamespace", ns |-> ns, tbl |-> "",
                                       resp |-> resp, err |-> createNamespace(resp)])
            /\ nsStore' = StoreAfter(catalogKind, nsStore, ns, resp)
    /\ UNCHANGED <<catalogKind, tblStore, waitVars, typeVars, sanVars, findVars, driverVars>>

\* a call of createTable(catalogURL, ns, tbl, schema) and the catalog's answer to it
CallCreateTable ==
    /\ catalogKind # "none"
    /\ Len(calls) < MaxCalls
    /\ \E ns \in NamespaceNames, tbl \in TableNames :
         \E resp \in TableAnswers(catalogKind, nsStore, tblStore, ns, tbl) :
            /\ calls' = Append(calls, [op |-> "createTable", ns |-> ns, tbl |-> tbl,
                                       resp |-> resp, err |-> createTable(resp)])
            /\ tblStore' = StoreAfter(catalogKind, tblStore, <<ns, tbl>>, resp)
    /\ UNCHANGED <<catalogKind, nsStore, waitVars, typeVars, sanVars, findVars, driverVars>>

----------------------------------------------------------------------------
(* Go strings as sequences of one-character strings, and the functions of *)
(* package strings the code calls on them (ASCII only).                    *)

LowerLetters ==
    <<"a", "b", "c", "d", "e", "f", "g", "h", "i", "j", "k", "l", "m",
      "n", "o", "p", "q", "r", "s", "t", "u", "v", "w", "x", "y", "z">>

UpperLetters ==
    <<"A", "B", "C", "D", "E", "F", "G", "H", "I", "J", "K", "L", "M",
      "N", "O", "P", "Q", "R", "S", "T", "U", "V", "W", "X", "Y", "Z">>

WhiteSpace == {" ", "\t", "\n", "\r"}

ToUpperChar(c) ==
    IF \E k \in DOMAIN LowerLetters : LowerLetters[k] = c
    THEN UpperLetters[CHOOSE k \in DOMAIN LowerLetters : LowerLetters[k] = c]
    ELSE c

ToLowerChar(c) ==
    IF \E k \in DOMAIN UpperLetters : UpperLetters[k] = c
    THEN LowerLetters[CHOOSE k \in DOMAIN UpperLetters : UpperLetters[k] = c]
    ELSE c

\* strings.ToUpper
ToUpper(str) == [k \in DOMAIN str |-> ToUpperChar(str[k])]

ToLower(str) == [k \in DOMAIN str |-> ToLowerChar(str[k])]

RECURSIVE TrimLeft(_)
TrimLeft(str) ==
    IF str # <<>> /\ Head(str) \in WhiteSpace THEN TrimLeft(Tail(str)) ELSE str

RECURSIVE TrimRight(_)
TrimRight(str) ==
    IF str # <<>> /\ str[Len(str)] \in WhiteSpace
    THEN TrimRight(SubSeq(str, 1, Len(str) - 1))
    ELSE str

\* strings.TrimSpace
TrimSpace(str) == TrimRight(TrimLeft(str))

\* strings.Contains
Contains(str, sub) ==
    \E k \in 0..(Len(str) - Len(sub)) : SubSeq(str, k + 1, k + Len(sub)) = sub

\* strings.HasSuffix
HasSuffix(str, suffix) ==
    /\ Len(suffix) <= Len(str)
    /\ SubSeq(str, Len(str) - Len(suffix) + 1, Len(str)) = suffix

\* strings.TrimSuffix
TrimSuffix(str, suffix) ==
    IF HasSuffix(str, suffix) THEN SubSeq(str, 1, Len(str) - Len(suffix)) ELSE str

\* strings.ReplaceAll(str, old, new) for a one-character old and new
ReplaceAll(str, old, new) == [k \in DOMAIN str |-> IF str[k] = old THEN new ELSE str[k]]

\* every string over alphabet of length at most n
RECURSIVE StringsUpTo(_, _)
StringsUpTo(alphabet, n) ==
    IF n = 0
    THEN {<<>>}
    ELSE LET shorter == StringsUpTo(alphabet, n - 1)
         IN  shorter \cup {Append(w, c) : w \in shorter, c \in alphabet}

----------------------------------------------------------------------------
(* convertDuckDBTypeToIceberg *)

IcebergTokens ==
    {"boolean", "int", "long", "float", "double", "string", "binary",
     "date", "time", "timestamp", "decimal(38,18)"}

\* the type names the cases of convertDuckDBTypeToIceberg compare with
DuckDBType ==
    [ BOOLEAN |-> <<"B", "O", "O", "L", "E", "A", "N">>,
      TINYINT |-> <<"T", "I", "N", "Y", "I", "N", "T">>,
      SMALLINT |-> <<"S", "M", "A", "L", "L", "I", "N", "T">>,
      INTEGER |-> <<"I", "N", "T", "E", "G", "E", "R">>,
      BIGINT |-> <<"B", "I", "G", "I", "N", "T">>,
      REAL |-> <<"R", "E", "A", "L">>,
      FLOAT |-> <<"F", "L", "O", "A", "T">>,
      DOUBLE |-> <<"D", "O", "U", "B", "L", "E">>,
      VARCHAR |-> <<"V", "A", "R", "C", "H", "A", "R">>,
      TEXT |-> <<"T", "E", "X", "T">>,
      BLOB |-> <<"B", "L", "O", "B">>,
      DATE |-> <<"D", "A", "T", "E">>,
      TIME |-> <<"T", "I", "M", "E">>,
      TIMESTAMP |-> <<"T", "I", "M", "E", "S", "T", "A", "M", "P">>,
      DECIMAL |-> <<"D", "E", "C", "I", "M", "A", "L">> ]

\* the switch with its default returning a token that is no Iceberg type
convertDuckDBTypeToIceberg_NoDefault(typeString) ==
    LET typeUpper == ToUpper(TrimSpace(typeString))
    IN  CASE typeUpper = DuckDBType.BOOLEAN -> "boolean"
          [] typeUpper = DuckDBType.TINYINT \/ typeUpper = DuckDBType.SMALLINT \/ typeUpper = DuckDBType.INTEGER -> "int"
          [] typeUpper = DuckDBType.BIGINT -> "long"
          [] typeUpper = DuckDBType.REAL \/ typeUpper = DuckDBType.FLOAT -> "float"
          [] typeUpper = DuckDBType.DOUBLE -> "double"
          [] Contains(typeUpper, DuckDBType.VARCHAR) \/ typeUpper = DuckDBType.TEXT -> "string"
          [] typeUpper = DuckDBType.BLOB -> "binary"
          [] typeUpper = DuckDBType.DATE -> "date"
          [] Contains(typeUpper, DuckDBType.TIME) -> "time"
          [] Contains(typeUpper, DuckDBType.TIMESTAMP) -> "timestamp"
          [] Contains(typeUpper, DuckDBType.DECIMAL) -> "decimal(38,18)"
          [] OTHER -> "unknown"

\* Go's switch takes the first case that holds; the nested IFs keep that order.
convertDuckDBTypeToIceberg(typeString) ==
    LET typeUpper == ToUpper(TrimSpace(typeString))
    IN  IF typeUpper = DuckDBType.BOOLEAN THEN "boolean"
        ELSE IF typeUpper = DuckDBType.TINYINT \/ typeUpper = DuckDBType.SMALLINT \/ typeUpper = DuckDBType.INTEGER
        THEN "int"
        ELSE IF typeUpper = DuckDBType.BIGINT THEN "long"
        ELSE IF typeUpper = DuckDBType.REAL \/ typeUpper = DuckDBType.FLOAT THEN "float"
        ELSE IF typeUpper = DuckDBType.DOUBLE THEN "double"
        ELSE IF Contains(typeUpper, DuckDBType.VARCHAR) \/ typeUpper = DuckDBType.TEXT THEN "string"
        ELSE IF typeUpper = DuckDBType.BLOB THEN "binary"
        ELSE IF typeUpper = DuckDBType.DATE THEN "date"
        ELSE IF Contains(typeUpper, DuckDBType.TIME) THEN "time"
        ELSE IF Contains(typeUpper, DuckDBType.TIMESTAMP) THEN "timestamp"
        ELSE IF Contains(typeUpper, DuckDBType.DECIMAL) THEN "decimal(38,18)"
        ELSE "string"

\* type strings the engine reports, and some it does not
TypeCorpus ==
    { <<"B", "O", "O", "L", "E", "A", "N">>,
      <<"T", "I", "N", "Y", "I", "N", "T">>,
      <<"S", "M", "A", "L", "L", "I", "N", "T">>,
      <<"I", "N", "T", "E", "G", "E", "R">>,
      <<"B", "I", "G", "I", "N", "T">>,
      <<"R", "E", "A", "L">>,
      <<"F", "L", "O", "A", "T">>,
      <<"D", "O", "U", "B", "L", "E">>,
      <<"V", "A", "R", "C", "H", "A", "R">>,
      <<"V", "A", "R", "C", "H", "A", "R", "(", "2", "5", "5", ")">>,
      <<"T", "E", "X", "T">>,
      <<"B", "L", "O", "B">>,
      <<"D", "A", "T", "E">>,
      <<"T", "I", "M", "E">>,
      <<"T", "I", "M", "E", "S", "T", "A", "M", "P">>,
      <<"T", "I", "M", "E", "S", "T", "A", "M", "P", " ", "W", "I", "T", "H", " ", "T", "I", "M", "E", " ", "Z", "O", "N", "E">>,
      <<"D", "E", "C", "I", "M", "A", "L", "(", "1", "8", ",", "3", ")">>,
      <<"H", "U", "G", "E", "I", "N", "T">>,
      <<"U", "U", "I", "D">>,
      <<"I", "N", "T", "E", "R", "V", "A", "L">>,
      <<"I", "N", "T", "E", "G", "E", "R", "[", "]">>,
      <<"S", "T", "R", "U", "C", "T", "(", "a", " ", "I", "N", "T", "E", "G", "E", "R", ")">> }

TypePads == {<<>>, <<" ">>, <<"\t">>}

TypeAlphabet == {"T", "I", "M", "E", " "}

TypeInputs ==
    {pre \o w \o post : w \in TypeCorpus \cup {ToLower(x) : x \in TypeCorpus},
                        pre \in TypePads, post \in TypePads}
    \cup StringsUpTo(TypeAlphabet, MaxTypeLen)

TypeIdle ==
    /\ duckdbType = <<>>
    /\ icebergType = ""
    /\ tpc = "idle"

TypeInit ==
    /\ duckdbType \in TypeInputs
    /\ icebergType = ""
    /\ tpc = "start"

ConvertType ==
    /\ tpc = "start"
    /\ icebergType' = convertDuckDBTypeToIceberg(duckdbType)
    /\ tpc' = "done"
    /\ UNCHANGED <<duckdbType, waitVars, restVars, sanVars, findVars, driverVars>>

----------------------------------------------------------------------------
(* sanitizeTableName, with filepath.Base and filepath.Ext as package       *)
(* path/filepath computes them where the separator is '/'.                 *)

RECURSIVE StripTrailingSlashes(_)
StripTrailingSlashes(path) ==
    IF path # <<>> /\ path[Len(path)] = "/"
    THEN StripTrailingSlashes(SubSeq(path, 1, Len(path) - 1))
    ELSE path

\* for i >= 0 && !os.IsPathSeparator(path[i]) { i-- }
RECURSIVE LastElementStart(_, _)
LastElementStart(path, k) ==
    IF k >= 1 /\ path[k] # "/" THEN LastElementStart(path, k - 1) ELSE k

\* filepath.Base
Base(path) ==
    IF path = <<>>
    THEN <<".">>
    ELSE LET stripped == StripTrailingSlashes(path)
             k        == LastElementStart(stripped, Len(stripped))
             last     == SubSeq(stripped, k + 1, Len(stripped))
         IN  IF last = <<>> THEN <<"/">> ELSE last

\* for i := len(path) - 1; i >= 0 && !os.IsPathSeparator(path[i]); i-- { if path[i] == '.' ... }
RECURSIVE ExtFrom(_, _)
ExtFrom(path, k) ==
    IF k >= 1 /\ path[k] # "/"
    THEN IF path[k] = "." THEN SubSeq(path, k, Len(path)) ELSE ExtFrom(path, k - 1)
    ELSE <<>>

\* filepath.Ext
Ext(path) == ExtFrom(path, Len(path))

\* the sanitizer without the replacement of '.'
sanitizeTableName_NoDot(path) ==
    LET filename == Base(path)
        stem     == TrimSuffix(filename, Ext(filename))
    IN  ReplaceAll(ReplaceAll(stem, "-", "_"), " ", "_")

\* the sanitizer with the extension left on
sanitizeTableName_KeepExt(path) ==
    LET filename == Base(path)
    IN  ReplaceAll(ReplaceAll(ReplaceAll(filename, "-", "_"), " ", "_"), ".", "_")

sanitizeTableName(path) ==
    LET filename == Base(path)
        stem     == TrimSuffix(filename, Ext(filename))
    IN  ReplaceAll(ReplaceAll(ReplaceAll(stem, "-", "_"), " ", "_"), ".", "_")

ExamplePath == <<"a", "-", "b", " ", "c", ".", "d", ".", "c", "s", "v">>

ExampleName == <<"a", "_", "b", "_", "c", "_", "d">>

PathAlphabet == {"a", "-", " ", ".", "/"}

PathInputs ==
    StringsUpTo(PathAlphabet, MaxPathLen)
    \cup {ExamplePath, <<"d", "a", "t", "a", "/", "s", "o", "u", "r", "c", "e", "/", "m", "y", "-", "f", "i", "l", "e", ".", "v", "2", ".", "c", "s", "v">>, <<"d", "a", "t", "a", "/", "p", "a", "r", "q", "u", "e", "t", "/", "s", "u", "b", " ", "d", "i", "r", "/", "s", "a", "l", "e", "s", " ", "2", "0", "2", "4", ".", "p", "a", "r", "q", "u", "e", "t">>}

SanIdle ==
    /\ filePath = <<>>
    /\ tableName = <<>>
    /\ tableName2 = <<>>
    /\ spc = "idle"

SanInit ==
    /\ filePath \in PathInputs
    /\ tableName = <<>>
    /\ tableName2 = <<>>
    /\ spc = "start"

\* tableName := sanitizeTableName(file)
Sanitize ==
    /\ spc = "start"
    /\ tableName' = sanitizeTableName(filePath)
    /\ spc' = "once"
    /\ UNCHANGED <<filePath, tableName2, waitVars, restVars, typeVars, findVars, driverVars>>

\* the sanitizer applied to its own result
SanitizeAgain ==
    /\ spc = "once"
    /\ tableName2' = sanitizeTableName(tableName)
    /\ spc' = "twice"
    /\ UNCHANGED <<filePath, tableName, waitVars, restVars, typeVars, findVars, driverVars>>

----------------------------------------------------------------------------
(* File discovery: filepath.Walk over a directory tree, with the callback *)
(* of findCSVFiles / findParquetFiles.  An entry of the tree has the names *)
(* from the root down to it and whether it is a directory; Walk visits the *)
(* root first and the entries of a directory in lexical order.             *)

\* the characters of names, in byte order
AsciiOrder ==
    <<" ", "-", ".", "/">> \o <<"0", "1", "2", "3", "4", "5", "6", "7", "8", "9">>
    \o UpperLetters \o <<"_">> \o LowerLetters

Rank(c) == CHOOSE k \in DOMAIN AsciiOrder : AsciiOrder[k] = c

\* s < t as Go compares strings
RECURSIVE StringLess(_, _)
StringLess(str, other) ==
    IF other = <<>> THEN FALSE
    ELSE IF str = <<>> THEN TRUE
    ELSE IF Head(str) = Head(other) THEN StringLess(Tail(str), Tail(other))
    ELSE Rank(Head(str)) < Rank(Head(other))

\* filepath.Join(root, names...)
RECURSIVE PathString(_, _)
PathString(root, names) ==
    IF names = <<>> THEN root
    ELSE PathString(root \o <<"/">> \o Head(names), Tail(names))

NameOf(entry) == entry.names[Len(entry.names)]

ChildrenOf(t, names) ==
    {e \in t.entries : Len(e.names) = Len(names) + 1
                       /\ SubSeq(e.names, 1, Len(names)) = names}

\* readDirNames: the entries of a directory sorted by name
RECURSIVE SortedByName(_)
SortedByName(entries) ==
    IF entries = {} THEN <<>>
    ELSE LET first == CHOOSE e \in entries :
                         \A o \in entries \ {e} : StringLess(NameOf(e), NameOf(o))
         IN  <<first>> \o SortedByName(entries \ {first})

\* the callback's test with the directory check left out
IsTargetFile_AnyEntry(isDir, path, ext) == Ext(path) = ext

\* if !info.IsDir() && filepath.Ext(path) == ".csv"
IsTargetFile(isDir, path, ext) == ~isDir /\ Ext(path) = ext

\* the callback: if err != nil { return err }; append when the test holds
WalkFn(acc, isDir, path, ext, err) ==
    IF err THEN [acc EXCEPT !.err = TRUE]
    ELSE IF IsTargetFile(isDir, path, ext)
         THEN [acc EXCEPT !.files = Append(acc.files, path)]
         ELSE acc

RECURSIVE WalkEntry(_, _, _, _), WalkList(_, _, _, _)
\* filepath.walk: a file is handed to the callback; a directory is read,
\* handed to the callback with the error of reading it, and then walked
WalkEntry(t, ext, entry, acc) ==
    LET path == PathString(t.root, entry.names)
    IN  IF ~entry.dir
        THEN WalkFn(acc, FALSE, path, ext, FALSE)
        ELSE LET after == WalkFn(acc, TRUE, path, ext, entry.names \in t.unreadable)
             IN  IF after.err
                 THEN after
                 ELSE WalkList(t, ext, SortedByName(ChildrenOf(t, entry.names)), after)

WalkList(t, ext, todo, acc) ==
    IF todo = <<>> \/ acc.err
    THEN acc
    ELSE WalkList(t, ext, Tail(todo), WalkEntry(t, ext, Head(todo), acc))

\* filepath.Walk(rootDir, fn): Lstat of a missing root hands the callback an error
Walk(t, ext) ==
    IF ~t.exists
    THEN WalkFn([files |-> <<>>, err |-> FALSE], FALSE, t.root, ext, TRUE)
    ELSE WalkEntry(t, ext, [names |-> <<>>, dir |-> TRUE], [files |-> <<>>, err |-> FALSE])

ExtCSV == <<".", "c", "s", "v">>

ExtParquet == <<".", "p", "a", "r", "q", "u", "e", "t">>

findCSVFiles(t) == Walk(t, ExtCSV)

findParquetFiles(t) == Walk(t, ExtParquet)

\* the names of the entries a tree of the model may hold
Names ==
    [a_csv     |-> <<"a", ".", "c", "s", "v">>,
     b_txt     |-> <<"b", ".", "t", "x", "t">>,
     Z_CSV     |-> <<"Z", ".", "C", "S", "V">>,
     d_csv     |-> <<"d", ".", "c", "s", "v">>,
     c_csv     |-> <<"c", ".", "c", "s", "v">>,
     sub       |-> <<"s", "u", "b">>,
     e_csv     |-> <<"e", ".", "c", "s", "v">>,
     f_parquet |-> <<"f", ".", "p", "a", "r", "q", "u", "e", "t">>,
     deep      |-> <<"d", "e", "e", "p">>,
     g_parquet |-> <<"g", ".", "p", "a", "r", "q", "u", "e", "t">>]

DataDir == <<"d", "a", "t", "a">>

File(names) == [names |-> names, dir |-> FALSE]

Dir(names) == [names |-> names, dir |-> TRUE]

\* the entries a tree of the model may hold
EntryUniverse ==
    {File(<<Names.a_csv>>), File(<<Names.b_txt>>), File(<<Names.Z_CSV>>),
     Dir(<<Names.d_csv>>), File(<<Names.d_csv, Names.c_csv>>),
     Dir(<<Names.sub>>), File(<<Names.sub, Names.e_csv>>), File(<<Names.sub, Names.f_parquet>>),
     Dir(<<Names.sub, Names.deep>>), File(<<Names.sub, Names.deep, Names.g_parquet>>)}

\* every entry but a top-level one lies in a directory of the tree
ParentClosed(entries) ==
    \A e \in entries :
        Len(e.names) > 1 => Dir(SubSeq(e.names, 1, Len(e.names) - 1)) \in entries

\* the trees of at most MaxTreeSize entries, each with at most one directory
\* (the root included) that cannot be read
Trees ==
    {[root |-> DataDir, exists |-> TRUE, entries |-> es, unreadable |-> un] :
        es \in {x \in SUBSET EntryUniverse : ParentClosed(x) /\ Cardinality(x) <= MaxTreeSize},
        un \in {{}} \cup {{d} : d \in {<<>>, <<Names.sub>>, <<Names.d_csv>>, <<Names.sub, Names.deep>>}}}

NoTree == [root |-> DataDir, exists |-> FALSE, entries |-> {}, unreadable |-> {}]

FindIdle ==
    /\ tree = NoTree
    /\ targetExt = <<>>
    /\ found = <<>>
    /\ ferr = FALSE
    /\ fpc = "idle"

FindInit ==
    /\ tree \in {t \in Trees : t.unreadable \subseteq {e.names : e \in {x \in t.entries : x.dir}} \cup {<<>>}} \cup {NoTree}
    /\ targetExt \in {ExtCSV, ExtParquet}
    /\ found = <<>>
    /\ ferr = FALSE
    /\ fpc = "start"

\* csvFiles, err := findCSVFiles(dataDir)
FindCSV ==
    /\ fpc = "start"
    /\ targetExt = ExtCSV
    /\ found' = findCSVFiles(tree).files
    /\ ferr' = findCSVFiles(tree).err
    /\ fpc' = "done"
    /\ UNCHANGED <<tree, targetExt, waitVars, restVars, typeVars, sanVars, driverVars>>

\* parquetFiles, err := findParquetFiles(parquetDir)
FindParquet ==
    /\ fpc = "start"
    /\ targetExt = ExtParquet
    /\ found' = findParquetFiles(tree).files
    /\ ferr' = findParquetFiles(tree).err
    /\ fpc' = "done"
    /\ UNCHANGED <<tree, targetExt, waitVars, restVars, typeVars, sanVars, driverVars>>

----------------------------------------------------------------------------
(* The drivers: func main of csv_to_parquet, csv_to_iceberg,                *)
(* create_iceberg_tables, parquet_to_iceberg and the parquet loader.  Each  *)
(* statement that can fail is a step whose outcome the environment picks.   *)

CSVDrivers == {"csv_to_parquet", "csv_to_iceberg"}

CatalogDrivers == {"create_iceberg_tables", "parquet_to_iceberg"}

Drivers == CSVDrivers \cup CatalogDrivers \cup {"parquet_loader"}

\* parquet_to_iceberg opens no engine
HasEngine(d) == d # "parquet_to_iceberg"

ParquetDir == <<"d", "a", "t", "a", "/", "p", "a", "r", "q", "u", "e", "t">>

\* dataDir / parquetDir
RootOf(d) == IF d \in CatalogDrivers THEN ParquetDir ELSE DataDir

ExtOf(d) == IF d \in CSVDrivers THEN ExtCSV ELSE ExtParquet

\* parquetDir := "data/parquet" / icebergDir := "iceberg_tables"
OutDirOf(d) == IF d = "csv_to_parquet" THEN "data/parquet" ELSE "iceberg_tables"

\* waitForCatalog(catalogURL, 10)
CreateIcebergTablesRetries == 10

\* waitForCatalog(catalogURL, 5)
ParquetToIcebergRetries == 5

RetriesOf(d) ==
    IF d = "create_iceberg_tables" THEN CreateIcebergTablesRetries ELSE ParquetToIcebergRetries

\* the INSTALL and LOAD statements run once the engine is open
ExtensionStatements(d) ==
    IF d = "csv_to_iceberg"
    THEN <<"INSTALL iceberg", "LOAD iceberg", "INSTALL httpfs", "LOAD httpfs">>
    ELSE IF d = "create_iceberg_tables"
    THEN <<"INSTALL parquet", "LOAD parquet">>
    ELSE <<>>

Stmt(op, ident) == [op |-> op, ident |-> ident]

P(tag) == [tag |-> tag, n |-> 0]

Pn(tag, n) == [tag |-> tag, n |-> n]

N_t(ext) == <<"t">> \o ext

N_special(ext) == <<"a", "-", "b", " ", "c", ".", "d">> \o ext

\* the input trees of a driver: the root missing, empty, holding files
\* without the extension only, one file, a file whose name has '-', ' ' and
\* '.' beside a subdirectory with a file, two files of the same base name,
\* an unreadable root and an unreadable subdirectory
DriverEntrySets(ext) ==
    { {},
      {File(<<Names.b_txt>>)},
      {File(<<N_t(ext)>>)},
      {File(<<N_special(ext)>>), Dir(<<Names.sub>>), File(<<Names.sub, N_t(ext)>>)},
      {File(<<N_t(ext)>>), Dir(<<Names.sub>>), File(<<Names.sub, N_t(ext)>>)} }

DriverTrees(d) ==
    {[root |-> RootOf(d), exists |-> FALSE, entries |-> {}, unreadable |-> {}]}
    \cup {[root |-> RootOf(d), exists |-> TRUE, entries |-> es, unreadable |-> {}] :
            es \in DriverEntrySets(ExtOf(d))}
    \cup {[root |-> RootOf(d), exists |-> TRUE,
           entries |-> {File(<<N_t(ExtOf(d))>>)}, unreadable |-> {<<>>}],
          [root |-> RootOf(d), exists |-> TRUE,
           entries |-> {File(<<N_special(ExtOf(d))>>), Dir(<<Names.sub>>),
                        File(<<Names.sub, N_t(ExtOf(d))>>)},
           unreadable |-> {<<Names.sub>>}]}

\* the discovery call of a driver
Discover(d, t) == IF d \in CSVDrivers THEN findCSVFiles(t) ELSE findParquetFiles(t)

\* what the catalog may answer to the readiness probes of a run: never
\* ready, unreachable, ready at once, ready at the third probe
DriverScripts(n) ==
    { [k \in 1..(n + 1) |-> Http(500, "")],
      [k \in 1..(n + 1) |-> TransportError],
      [k \in 1..(n + 1) |-> Http(200, "")],
      [k \in 1..(n + 1) |-> IF k < 3 THEN Http(404, "") ELSE Http(200, "")] }

\* what the catalog may answer to a POST of a run
DriverPostResponses ==
    {TransportError, Http(200, ""), Http(409, ""), Http(500, "")}
\* IcebergSchema{}
EmptySchema == [type |-> "", schemaId |-> 0, fields |-> <<>>]

\* what db.Query and the loop over its rows come to: the query fails, a row
\* does not scan, rows.Err() reports an error, or every row was read into
\* columns
Described(cols) == [err |-> "none", columns |-> cols]

DescribeFailed(e) == [err |-> e, columns |-> <<>>]

NotDescribed == DescribeFailed("not run")

DriverIdle ==
    /\ driver = "none"
    /\ dpc = "idle"
    /\ fi = 0
    /\ columns = NotDescribed
    /\ icebergSchema = EmptySchema
    /\ attempts = <<>>
    /\ tables = {}
    /\ sqlLog = <<>>
    /\ posts = <<>>
    /\ dirsMade = {}
    /\ outFiles = {}
    /\ printed = <<>>
    /\ successCount = 0
    /\ exitCode = -1
    /\ fatal = "none"

DriverInit ==
    /\ driver \in Drivers
    /\ dpc = IF HasEngine(driver) THEN "open" ELSE "stat"
    /\ tree \in DriverTrees(driver)
    /\ targetExt = ExtOf(driver)
    /\ found = <<>>
    /\ ferr = FALSE
    /\ fpc = "idle"
    /\ fi = 1
    /\ columns = NotDescribed
    /\ icebergSchema = EmptySchema
    /\ attempts = <<>>
    /\ tables = {}
    /\ sqlLog = <<>>
    /\ posts = <<>>
    /\ dirsMade = {}
    /\ outFiles = {}
    /\ printed = <<>>
    /\ successCount = 0
    /\ exitCode = -1
    /\ fatal = "none"

\* log.Fatal, were it to leave the exit status at 0
Fatal_ExitZero(cause) ==
    /\ dpc' = "exit"
    /\ exitCode' = 0
    /\ fatal' = cause

\* log.Fatal: the message, then os.Exit(1)
Fatal(cause) ==
    /\ dpc' = "exit"
    /\ exitCode' = 1
    /\ fatal' = cause

\* return from main
Return ==
    /\ dpc' = "exit"
    /\ exitCode' = 0
    /\ fatal' = fatal

\* which drivers answer a missing root with os.MkdirAll
CreatesRoot_Always(d) == TRUE

CreatesRoot(d) == d \notin CatalogDrivers

\* if len(files) == 0, without the test
NoFiles_Never(files) == FALSE

\* if len(files) == 0
NoFiles(files) == Len(files) = 0

\* if err != nil after waitForCatalog, without the test
PollFailed_Never(err) == FALSE

\* if err != nil after waitForCatalog
PollFailed(err) == err # Nil

\* sql.Open and db.Ping, then the extensions, whose errors are not fatal
DriverOpen ==
    /\ dpc = "open"
    /\ \E ok \in BOOLEAN :
        IF ok
        THEN /\ sqlLog' = sqlLog \o [k \in DOMAIN ExtensionStatements(driver) |->
                                      Stmt(ExtensionStatements(driver)[k], <<>>)]
             /\ dpc' = "stat"
             /\ UNCHANGED <<exitCode, fatal>>
        ELSE /\ Fatal("engine")
             /\ UNCHANGED sqlLog
    /\ UNCHANGED <<driver, outFiles, fi, columns, icebergSchema,
                   attempts, tables, posts, dirsMade, printed,
                   successCount, waitVars, restVars, typeVars, sanVars, findVars>>

\* if _, err := os.Stat(dir); os.IsNotExist(err) { ... return }
DriverStat ==
    /\ dpc = "stat"
    /\ IF tree.exists
       THEN /\ dpc' = "find"
            /\ UNCHANGED <<tree, dirsMade, printed, exitCode, fatal>>
       ELSE IF ~CreatesRoot(driver)
       THEN /\ printed' = printed \o <<P("root does not exist"), P("run csv-to-parquet first")>>
            /\ Return
            /\ UNCHANGED <<tree, dirsMade>>
       ELSE \E ok \in BOOLEAN :
            IF ok
            THEN /\ tree' = [tree EXCEPT !.exists = TRUE]
                 /\ dirsMade' = dirsMade \cup {"data"}
                 /\ printed' = printed \o <<P("root does not exist"), P("created root"),
                                            P("place your files in data")>>
                 /\ Return
            ELSE /\ printed' = Append(printed, P("root does not exist"))
                 /\ Fatal("mkdir")
                 /\ UNCHANGED <<tree, dirsMade>>
    /\ UNCHANGED <<driver, outFiles, fi, columns, icebergSchema,
                   attempts, tables, sqlLog, posts, successCount,
                   targetExt, found, ferr, fpc, waitVars, restVars, typeVars, sanVars>>

\* files, err := find...Files(dir), the two tests that follow and the listing
DriverFind ==
    /\ dpc = "find"
    /\ LET r == Discover(driver, tree)
       IN  /\ found' = r.files
           /\ ferr' = r.err
           /\ IF r.err
              THEN /\ Fatal("find")
                   /\ UNCHANGED printed
              ELSE IF NoFiles(r.files)
              THEN /\ printed' = printed \o <<P("no files found"),
                        P(IF driver \in CatalogDrivers THEN "run csv-to-parquet first"
                                                       ELSE "place your files in data")>>
                   /\ Return
              ELSE /\ printed' = Append(printed, Pn("found", Len(r.files)))
                   /\ dpc' = IF driver \in CSVDrivers THEN "mkout"
                             ELSE IF driver \in CatalogDrivers THEN "wait"
                             ELSE "loop"
                   /\ UNCHANGED <<exitCode, fatal>>
    /\ UNCHANGED <<driver, outFiles, fi, columns, icebergSchema,
                   attempts, tables, sqlLog, posts, dirsMade,
                   successCount, tree, targetExt, fpc, waitVars, restVars, typeVars, sanVars>>

\* if err := os.MkdirAll(outDir, 0755); err != nil { log.Fatal(...) }
DriverMkOut ==
    /\ dpc = "mkout"
    /\ \E ok \in BOOLEAN :
        IF ok
        THEN /\ dirsMade' = dirsMade \cup {OutDirOf(driver)}
             /\ dpc' = "loop"
             /\ UNCHANGED <<exitCode, fatal>>
        ELSE /\ Fatal("mkdir")
             /\ UNCHANGED dirsMade
    /\ UNCHANGED <<driver, outFiles, fi, columns, icebergSchema,
                   attempts, tables, sqlLog, posts, printed,
                   successCount, waitVars, restVars, typeVars, sanVars, findVars>>

\* the call waitForCatalog(catalogURL, n): its loop is WaitProbe, WaitSleep
\* and WaitExhausted
DriverWait ==
    /\ dpc = "wait"
    /\ maxRetries' = RetriesOf(driver)
    /\ script' \in DriverScripts(RetriesOf(driver))
    /\ i' = 0
    /\ wpc' = "loop"
    /\ werr' = Nil
    /\ probeLog' = <<>>
    /\ sleepLog' = <<>>
    /\ dpc' = "waiting"
    /\ UNCHANGED <<driver, outFiles, fi, columns, icebergSchema,
                   attempts, tables, sqlLog, posts, dirsMade, printed,
                   successCount, exitCode, fatal, restVars, typeVars, sanVars, findVars>>

\* err = waitForCatalog(...); if err != nil { log.Fatal(...) }
DriverAfterWait ==
    /\ dpc = "waiting"
    /\ wpc = "done"
    /\ IF PollFailed(werr)
       THEN Fatal("catalog")
       ELSE /\ dpc' = "namespace"
            /\ UNCHANGED <<exitCode, fatal>>
    /\ UNCHANGED <<driver, outFiles, fi, columns, icebergSchema,
                   attempts, tables, sqlLog, posts, dirsMade, printed,
                   successCount, waitVars, restVars, typeVars, sanVars, findVars>>

Post(op, name, schema, resp) ==
    [op |-> op, name |-> name, schema |-> schema, resp |-> resp]

NamespaceName == <<"m", "y", "_", "d", "a", "t", "a">>

\* the call with an error of createNamespace answered by log.Fatal
DriverNamespace_FatalOnError ==
    /\ dpc = "namespace"
    /\ \E resp \in DriverPostResponses :
        /\ posts' = Append(posts, Post("namespace", NamespaceName, EmptySchema, resp))
        /\ IF createNamespace(resp) # Nil
           THEN /\ printed' = Append(printed, P("namespace not created"))
                /\ Fatal("namespace")
           ELSE /\ printed' = Append(printed, P("namespace created"))
                /\ dpc' = "loop"
                /\ UNCHANGED <<exitCode, fatal>>
    /\ UNCHANGED <<driver, outFiles, fi, columns, icebergSchema,
                   attempts, tables, sqlLog, dirsMade, successCount,
                   waitVars, restVars, typeVars, sanVars, findVars>>

\* err = createNamespace(catalogURL, namespaceName): an error is printed and
\* the run goes on
DriverNamespace ==
    /\ dpc = "namespace"
    /\ \E resp \in DriverPostResponses :
        /\ posts' = Append(posts, Post("namespace", NamespaceName, EmptySchema, resp))
        /\ printed' = Append(printed,
                        IF createNamespace(resp) # Nil THEN P("namespace not created")
                                                       ELSE P("namespace created"))
    /\ dpc' = "loop"
    /\ UNCHANGED <<driver, outFiles, fi, columns, icebergSchema,
                   attempts, tables, sqlLog, dirsMade, successCount,
                   exitCode, fatal, waitVars, restVars, typeVars, sanVars, findVars>>

----------------------------------------------------------------------------
(* The file loop of a driver.  A step of the loop body is a statement that *)
(* can fail; the flow of a driver gives, for each step, what it does and    *)
(* where the run goes when it succeeds and when it fails: to another step,  *)
(* to the next file ("next", a continue or the end of the body) or to the   *)
(* next file past successCount++ ("counted").                               *)

\* filepath.Rel(root, path) for a path that Walk built under root
Rel(root, path) == SubSeq(path, Len(root) + 2, Len(path))

\* tableName of the parquet loader: the relative path without its extension,
\* with the separator and '-' replaced by '_'
LoaderTableName(root, path) ==
    LET relPath == Rel(root, path)
        stem    == SubSeq(relPath, 1, Len(relPath) - Len(Ext(relPath)))
    IN  ReplaceAll(ReplaceAll(stem, "/", "_"), "-", "_")

\* tableName of a loop iteration
TableNameOf(d, path) ==
    IF d = "parquet_loader" THEN LoaderTableName(RootOf(d), path)
    ELSE sanitizeTableName(path)

TempPrefix == <<"t", "e", "m", "p", "_">>

\* the table the iteration creates in the engine: temp_<name> in the CSV
\* drivers, <name> in the parquet loader
EngineTableOf(d, path) ==
    IF d \in CSVDrivers THEN TempPrefix \o TableNameOf(d, path) ELSE TableNameOf(d, path)

Step(op, ok, fail) == [op |-> op, ok |-> ok, fail |-> fail]

Flow_csv_to_parquet ==
    [abs_in   |-> Step("abs", "create", "next"),
     create   |-> Step("create", "count", "next"),
     count    |-> Step("count", "abs_out", "next"),
     abs_out  |-> Step("abs", "copy", "next"),
     copy     |-> Step("copy parquet", "sample", "next"),
     sample   |-> Step("sample", "drop", "drop"),
     drop     |-> Step("drop", "next", "next")]

\* the body with the Parquet COPY run after the Iceberg COPY in either case
Flow_csv_to_iceberg_ParquetAlways ==
    [abs_in   |-> Step("abs", "create", "next"),
     create   |-> Step("create", "count", "next"),
     count    |-> Step("count", "abs_out", "next"),
     abs_out  |-> Step("abs", "copy", "next"),
     copy     |-> Step("copy iceberg", "fallback", "fallback"),
     fallback |-> Step("copy parquet", "sample", "next"),
     sample   |-> Step("sample", "drop", "drop"),
     drop     |-> Step("drop", "next", "next")]

Flow_csv_to_iceberg ==
    [abs_in   |-> Step("abs", "create", "next"),
     create   |-> Step("create", "count", "next"),
     count    |-> Step("count", "abs_out", "next"),
     abs_out  |-> Step("abs", "copy", "next"),
     copy     |-> Step("copy iceberg", "sample", "fallback"),
     fallback |-> Step("copy parquet", "sample", "next"),
     sample   |-> Step("sample", "drop", "drop"),
     drop     |-> Step("drop", "next", "next")]

Flow_parquet_loader ==
    [abs_in   |-> Step("abs", "create", "next"),
     create   |-> Step("create", "count", "next"),
     count    |-> Step("count rows", "select", "next"),
     select   |-> Step("select all", "columns", "next"),
     columns  |-> Step("columns", "rows", "next"),
     rows     |-> Step("print rows", "next", "next")]

\* the body with a failed table request sent again
Flow_create_iceberg_tables_Retry ==
    [count    |-> Step("count file", "schema", "schema"),
     schema   |-> Step("describe file", "post", "post"),
     post     |-> Step("post table", "sample", "post"),
     sample   |-> Step("sample file", "counted", "counted")]

\* the body with a failed preview leaving the iteration before successCount++
Flow_create_iceberg_tables_PreviewCounts ==
    [count    |-> Step("count file", "schema", "schema"),
     schema   |-> Step("describe file", "post", "post"),
     post     |-> Step("post table", "sample", "next"),
     sample   |-> Step("sample file", "counted", "next")]

Flow_create_iceberg_tables ==
    [count    |-> Step("count file", "schema", "schema"),
     schema   |-> Step("describe file", "post", "post"),
     post     |-> Step("post table", "sample", "next"),
     sample   |-> Step("sample file", "counted", "counted")]

Flow_parquet_to_iceberg ==
    [schema   |-> Step("basic schema", "post", "post"),
     post     |-> Step("post table", "counted", "next")]

Flow(d) ==
    CASE d = "csv_to_parquet"        -> Flow_csv_to_parquet
      [] d = "csv_to_iceberg"        -> Flow_csv_to_iceberg
      [] d = "parquet_loader"        -> Flow_parquet_loader
      [] d = "create_iceberg_tables" -> Flow_create_iceberg_tables
      [] d = "parquet_to_iceberg"    -> Flow_parquet_to_iceberg
      [] OTHER                       -> <<>>

FirstStep(d) ==
    IF d = "create_iceberg_tables" THEN "count"
    ELSE IF d = "parquet_to_iceberg" THEN "schema"
    ELSE "abs_in"

AtStep == dpc \in DOMAIN Flow(driver)

\* the calls of the body that touch no table: filepath.Abs, rows.Columns
CallOps == {"abs", "columns"}

\* the statements on a table of the engine
TableOps == {"create", "count", "copy parquet", "copy iceberg", "sample", "drop", "select all"}

\* the statements that read the parquet file by its path
FileOps == {"count file", "sample file"}

\* for a continue that skips a file
Goto_SkipNext(target) ==
    IF target \in {"next", "counted"}
    THEN /\ dpc' = "loop"
         /\ fi' = fi + 2
         /\ successCount' = IF target = "counted" THEN successCount + 1 ELSE successCount
    ELSE /\ dpc' = target
         /\ UNCHANGED <<fi, successCount>>

\* where the run goes after a step
Goto(target) ==
    IF target \in {"next", "counted"}
    THEN /\ dpc' = "loop"
         /\ fi' = fi + 1
         /\ successCount' = IF target = "counted" THEN successCount + 1 ELSE successCount
    ELSE /\ dpc' = target
         /\ UNCHANGED <<fi, successCount>>

\* what a step prints when it fails
Failure(step) == [tag |-> "failed: " \o step, n |-> fi]

\* for _, file := range files { tableName := ...
DriverBeginFile ==
    /\ dpc = "loop"
    /\ fi <= Len(found)
    /\ attempts' = Append(attempts, found[fi])
    /\ columns' = NotDescribed
    /\ icebergSchema' = EmptySchema
    /\ dpc' = FirstStep(driver)
    /\ UNCHANGED <<driver, outFiles, fi, tables, sqlLog, posts, dirsMade, printed, successCount,
                   exitCode, fatal, waitVars, restVars, typeVars, sanVars, findVars>>

\* a call that may fail and touches neither the engine nor the catalog
DriverCall ==
    /\ AtStep
    /\ Flow(driver)[dpc].op \in CallOps
    /\ \E ok \in BOOLEAN :
        IF ok
        THEN /\ Goto(Flow(driver)[dpc].ok)
             /\ UNCHANGED printed
        ELSE /\ Goto(Flow(driver)[dpc].fail)
             /\ printed' = Append(printed, Failure(dpc))
    /\ UNCHANGED <<driver, outFiles, columns, icebergSchema,
                   attempts, tables, sqlLog, posts, dirsMade,
                   exitCode, fatal, waitVars, restVars, typeVars, sanVars, findVars>>

\* the format a COPY statement writes
FormatOf == [x \in {"copy parquet", "copy iceberg"} |->
                IF x = "copy parquet" THEN "parquet" ELSE "iceberg"]

\* the output of a COPY: <dir>/<name>.parquet or the Iceberg table
\* <dir>/<name>, holding the rows of the file it was loaded from
Output(name, format, from) == [name |-> name, format |-> format, from |-> from]

\* COPY ... TO adding a file beside the one at the path
Written_KeepBoth(outputs, out) == outputs \cup {out}

\* COPY ... TO replaces what is at the path
Written(outputs, out) ==
    {o \in outputs : ~(o.name = out.name /\ o.format = out.format)} \cup {out}

\* db.Exec / db.Query / db.QueryRow of a statement with the table's name
\* in it.  CREATE TABLE cannot succeed while the table exists.
DriverExec ==
    /\ AtStep
    /\ Flow(driver)[dpc].op \in TableOps
    /\ LET op == Flow(driver)[dpc].op
           t  == EngineTableOf(driver, found[fi])
       IN  /\ sqlLog' = Append(sqlLog, Stmt(op, t))
           /\ \E ok \in BOOLEAN :
                /\ (op = "create" /\ t \in tables) => ~ok
                /\ IF ok
                   THEN /\ Goto(Flow(driver)[dpc].ok)
                        /\ tables' = IF op = "create" THEN tables \cup {t}
                                     ELSE IF op = "drop" THEN tables \ {t}
                                     ELSE tables
                        /\ outFiles' = IF op \in DOMAIN FormatOf
                                       THEN Written(outFiles,
                                                    Output(TableNameOf(driver, found[fi]),
                                                           FormatOf[op], found[fi]))
                                       ELSE outFiles
                        /\ UNCHANGED printed
                   ELSE /\ Goto(Flow(driver)[dpc].fail)
                        /\ printed' = Append(printed, Failure(dpc))
                        /\ UNCHANGED <<tables, outFiles>>
    /\ UNCHANGED <<driver, columns, icebergSchema, attempts, posts, dirsMade,
                   exitCode, fatal, waitVars, restVars, typeVars, sanVars, findVars>>

\* if rowCount >= 10 { ...; break }
RowLimit == 10

\* the loop `for rows.Next()` of the parquet loader over the rows not yet
\* read: a row is printed and counted, and the loop is left at the limit.
\* The result is rowCount after the loop.
RECURSIVE PrintLoop(_, _)
PrintLoop(remaining, rowCount) ==
    IF remaining = 0
    THEN rowCount
    ELSE IF rowCount + 1 >= RowLimit
         THEN rowCount + 1
         ELSE PrintLoop(remaining - 1, rowCount + 1)

\* the parquet loader's SELECT COUNT(*) FROM <table> and the line that
\* reports the count; the table holds any number of rows
DriverCountRows ==
    /\ AtStep
    /\ Flow(driver)[dpc].op = "count rows"
    /\ sqlLog' = Append(sqlLog, Stmt("count rows", EngineTableOf(driver, found[fi])))
    /\ \/ \E r \in 0..MaxRows :
            /\ printed' = Append(printed, Pn("table contains rows", r))
            /\ Goto(Flow(driver)[dpc].ok)
       \/ /\ printed' = Append(printed, Failure(dpc))
          /\ Goto(Flow(driver)[dpc].fail)
    /\ UNCHANGED <<driver, outFiles, columns, icebergSchema,
                   attempts, tables, posts, dirsMade,
                   exitCode, fatal, waitVars, restVars, typeVars, sanVars, findVars>>

\* the rows the table was reported to hold
TableRows ==
    LET counts == SelectSeq(printed, LAMBDA line : line.tag = "table contains rows")
    IN  counts[Len(counts)].n

\* the parquet loader's loop over the rows of SELECT * FROM <table>, with
\* every row scanned without error
DriverPrintRows ==
    /\ AtStep
    /\ Flow(driver)[dpc].op = "print rows"
    /\ LET rowCount == PrintLoop(TableRows, 0)
       IN  printed' = printed
                      \o <<Pn("data rows printed", rowCount)>>
                      \o (IF rowCount >= RowLimit
                          THEN <<Pn("showing first rows", rowCount)>> ELSE <<>>)
    /\ Goto(Flow(driver)[dpc].ok)
    /\ UNCHANGED <<driver, outFiles, columns, icebergSchema,
                   attempts, tables, sqlLog, posts, dirsMade,
                   exitCode, fatal, waitVars, restVars, typeVars, sanVars, findVars>>

\* getParquetRowCount / readParquetSampleDataWithDuckDB: a query over
\* read_parquet('<path>'), with no table
DriverQueryFile ==
    /\ AtStep
    /\ Flow(driver)[dpc].op \in FileOps
    /\ sqlLog' = Append(sqlLog, Stmt(Flow(driver)[dpc].op, <<>>))
    /\ \E ok \in BOOLEAN :
        IF ok
        THEN /\ Goto(Flow(driver)[dpc].ok)
             /\ UNCHANGED printed
        ELSE /\ Goto(Flow(driver)[dpc].fail)
             /\ printed' = Append(printed, Failure(dpc))
    /\ UNCHANGED <<driver, outFiles, columns, icebergSchema,
                   attempts, tables, posts, dirsMade,
                   exitCode, fatal, waitVars, restVars, typeVars, sanVars, findVars>>


\* the field names of createBasicSchema, and a column name with a space
FieldName ==
    [id         |-> <<"i", "d">>,
     data       |-> <<"d", "a", "t", "a">>,
     timestamp  |-> <<"t", "i", "m", "e", "s", "t", "a", "m", "p">>,
     unit_price |-> <<"u", "n", "i", "t", " ", "p", "r", "i", "c", "e">>]

ParquetColumn(name, type, null) == [Name |-> name, Type |-> type, Null |-> null]

IcebergField(id, name, required, type) ==
    [id |-> id, name |-> name, required |-> required, type |-> type]

IcebergSchema(fields) == [type |-> "struct", schemaId |-> 0, fields |-> fields]

\* createBasicSchema with the name of the table as the name of its first field
createBasicSchema_NamedAfterTable(name) ==
    IcebergSchema(<<IcebergField(1, name, FALSE, "long"),
                    IcebergField(2, FieldName.data, FALSE, "string"),
                    IcebergField(3, FieldName.timestamp, FALSE, "timestamp")>>)

\* createBasicSchema(tableName): the same three fields for every table
createBasicSchema(name) ==
    IcebergSchema(<<IcebergField(1, FieldName.id, FALSE, "long"),
                    IcebergField(2, FieldName.data, FALSE, "string"),
                    IcebergField(3, FieldName.timestamp, FALSE, "timestamp")>>)

DescribeErrors == {"query", "scan", "rows"}

\* the nullability DESCRIBE reports
NullFlags == {"YES", "NO"}

\* the column lists DESCRIBE may report for a parquet file: none, one or two
\* columns
DescribedColumns ==
    {<<>>}
    \cup {<<ParquetColumn(FieldName.id, DuckDBType.BIGINT, n)>> : n \in NullFlags}
    \cup {<<ParquetColumn(FieldName.id, DuckDBType.BIGINT, n1),
            ParquetColumn(FieldName.unit_price, DuckDBType.DOUBLE, n2)>> :
              n1 \in NullFlags, n2 \in NullFlags}

DescribeOutcomes ==
    {DescribeFailed(e) : e \in DescribeErrors} \cup {Described(c) : c \in DescribedColumns}

\* readParquetSchemaWithDuckDB numbering the fields from 0
readParquetSchemaWithDuckDB_FromZero(outcome) ==
    IF outcome.err # "none"
    THEN [schema |-> EmptySchema, err |-> Errorf(<<"failed: ", outcome.err>>)]
    ELSE IF Len(outcome.columns) = 0
         THEN [schema |-> EmptySchema,
               err |-> Errorf(<<"no columns found in parquet file schema">>)]
         ELSE [schema |-> IcebergSchema(
                   [k \in 1..Len(outcome.columns) |->
                       IcebergField(k - 1,
                                    outcome.columns[k].Name,
                                    outcome.columns[k].Null = "NO",
                                    convertDuckDBTypeToIceberg(outcome.columns[k].Type))]),
               err |-> Nil]

\* readParquetSchemaWithDuckDB(db, filePath), for what the query came to:
\* field i+1 of the schema is made from columns[i]
readParquetSchemaWithDuckDB(outcome) ==
    IF outcome.err # "none"
    THEN [schema |-> EmptySchema, err |-> Errorf(<<"failed: ", outcome.err>>)]
    ELSE IF Len(outcome.columns) = 0
         THEN [schema |-> EmptySchema,
               err |-> Errorf(<<"no columns found in parquet file schema">>)]
         ELSE [schema |-> IcebergSchema(
                   [k \in 1..Len(outcome.columns) |->
                       IcebergField(k,
                                    outcome.columns[k].Name,
                                    outcome.columns[k].Null = "NO",
                                    convertDuckDBTypeToIceberg(outcome.columns[k].Type))]),
               err |-> Nil]

\* icebergSchema: from DESCRIBE in create_iceberg_tables, with the basic
\* template when that fails; the basic template in parquet_to_iceberg
DriverSchema ==
    /\ AtStep
    /\ Flow(driver)[dpc].op \in {"describe file", "basic schema"}
    /\ IF Flow(driver)[dpc].op = "basic schema"
       THEN /\ icebergSchema' = createBasicSchema(TableNameOf(driver, found[fi]))
            /\ UNCHANGED <<columns, sqlLog, printed>>
       ELSE /\ sqlLog' = Append(sqlLog, Stmt("describe file", <<>>))
            /\ \E outcome \in DescribeOutcomes :
                 LET read == readParquetSchemaWithDuckDB(outcome)
                 IN  /\ columns' = outcome
                     /\ IF read.err = Nil
                        THEN /\ icebergSchema' = read.schema
                             /\ UNCHANGED printed
                        ELSE /\ icebergSchema' =
                                    createBasicSchema(TableNameOf(driver, found[fi]))
                             /\ printed' = Append(printed, Failure(dpc))
    /\ Goto(Flow(driver)[dpc].ok)
    /\ UNCHANGED <<driver, outFiles, attempts, tables, posts, dirsMade,
                   exitCode, fatal, waitVars, restVars, typeVars, sanVars, findVars>>

\* the test of the error text, never holding
MentionsConflict_Never(err) == FALSE

\* strings.Contains(err.Error(), "already exists") ||
\* strings.Contains(err.Error(), "409"), for the errors createTable builds
\* from the answers of the model, whose bodies hold neither text: the text
\* is there exactly when the status printed into the error is 409
MentionsConflict(err) == \E k \in DOMAIN err.text : err.text[k] = ToString(409)

\* "Table ... already exists, skipping..."
Skipped(k) == [tag |-> "skipped: already exists", n |-> k]

\* what a driver prints for an error of createTable: create_iceberg_tables
\* tells a conflict from a failure, parquet_to_iceberg does not
TableErrorLine(d, err, step) ==
    IF d = "create_iceberg_tables" /\ MentionsConflict(err)
    THEN Skipped(fi)
    ELSE Failure(step)

\* err = createTable(catalogURL, namespaceName, tableName, icebergSchema)
DriverCreateTable ==
    /\ AtStep
    /\ Flow(driver)[dpc].op = "post table"
    /\ \E resp \in DriverPostResponses :
        /\ posts' = Append(posts, Post("table", TableNameOf(driver, found[fi]), icebergSchema, resp))
        /\ IF createTable(resp) = Nil
           THEN /\ Goto(Flow(driver)[dpc].ok)
                /\ UNCHANGED printed
           ELSE /\ Goto(Flow(driver)[dpc].fail)
                /\ printed' = Append(printed,
                                    TableErrorLine(driver, createTable(resp), dpc))
    /\ UNCHANGED <<driver, outFiles, columns, icebergSchema,
                   attempts, tables, sqlLog, dirsMade,
                   exitCode, fatal, waitVars, restVars, typeVars, sanVars, findVars>>

\* the number the closing lines report as processed, were it successCount
ProcessedCount_Successes(files, successes) == successes

\* "... files processed: %d", len(files)
ProcessedCount(files, successes) == Len(files)

\* whether the closing lines of a driver report the number of files
PrintsFileCount(d) == d # "parquet_loader"

\* the end of the loop: the closing lines, then main returns
DriverSummary ==
    /\ dpc = "loop"
    /\ fi > Len(found)
    /\ printed' = printed
                  \o <<P("all processed")>>
                  \o (IF PrintsFileCount(driver)
                      THEN <<Pn("files processed", ProcessedCount(found, successCount))>>
                      ELSE <<>>)
                  \o (IF driver \in CatalogDrivers
                      THEN <<Pn("tables created", successCount)>> ELSE <<>>)
    /\ Return
    /\ UNCHANGED <<driver, outFiles, fi, columns, icebergSchema,
                   attempts, tables, sqlLog, posts, dirsMade,
                   successCount, waitVars, restVars, typeVars, sanVars, findVars>>

----------------------------------------------------------------------------
Init ==
    \/ WaitInit /\ RestIdle /\ TypeIdle /\ SanIdle /\ FindIdle /\ DriverIdle
    \/ RestInit /\ WaitIdle /\ TypeIdle /\ SanIdle /\ FindIdle /\ DriverIdle
    \/ TypeInit /\ WaitIdle /\ RestIdle /\ SanIdle /\ FindIdle /\ DriverIdle
    \/ SanInit /\ WaitIdle /\ RestIdle /\ TypeIdle /\ FindIdle /\ DriverIdle
    \/ FindInit /\ WaitIdle /\ RestIdle /\ TypeIdle /\ SanIdle /\ DriverIdle
    \/ DriverInit /\ WaitIdle /\ RestIdle /\ TypeIdle /\ SanIdle

Next ==
    \/ WaitProbe
    \/ WaitSleep
    \/ WaitExhausted
    \/ CallCreateNamespace
    \/ CallCreateTable
    \/ ConvertType
    \/ Sanitize
    \/ SanitizeAgain
    \/ FindCSV
    \/ FindParquet
    \/ DriverOpen
    \/ DriverStat
    \/ DriverFind
    \/ DriverMkOut
    \/ DriverWait
    \/ DriverAfterWait
    \/ DriverNamespace
    \/ DriverBeginFile
    \/ DriverCall
    \/ DriverExec
    \/ DriverQueryFile
    \/ DriverCountRows
    \/ DriverPrintRows
    \/ DriverSchema
    \/ DriverCreateTable
    \/ DriverSummary

Spec == Init /\ [][Next]_vars

----------------------------------------------------------------------------
(* Properties of waitForCatalog and checkCatalogHTTP *)

Is200(resp) == resp.transport /\ resp.status = 200

Failed(entry) == ~Is200(entry.resp)

Least(S) == CHOOSE x \in S : \A y \in S : x <= y

\* C1: for every maxRetries >= 0, when no readiness probe ever returns 200,
\* waitForCatalog returns an error after exactly maxRetries probes: it never
\* makes more, and it has made no fewer when it returns.
C1_ExhaustedAfterMaxRetriesProbes ==
    (wpc # "idle" /\ \A j \in DOMAIN script : ~Is200(script[j]))
        => /\ Len(probeLog) <= maxRetries
           /\ wpc = "done" => (~werr.nil /\ Len(probeLog) = maxRetries)

C1_Witness ==
    /\ wpc = "done"
    /\ maxRetries = 3
    /\ \A j \in DOMAIN script : ~Is200(script[j])
    /\ Len(probeLog) = 3
    /\ werr = ExhaustedError(3)

\* C2: waitForCatalog returns success at the first probe that returns 200 and
\* probes no further: when the first 200 is the k-th answer, k <= maxRetries,
\* exactly k probes are made and the result is nil; when the first maxRetries
\* answers all fail the result is an error, whatever a later answer would be.
C2_SuccessAtFirst200 ==
    wpc # "idle"
        => /\ \A j \in DOMAIN probeLog :
                /\ probeLog[j].resp = script[j]
                /\ Is200(probeLog[j].resp) => j = Len(probeLog)
           /\ wpc = "done"
                => LET ok == {j \in 1..maxRetries : Is200(script[j])}
                   IN  IF ok # {}
                       THEN werr.nil /\ Len(probeLog) = Least(ok)
                       ELSE ~werr.nil /\ Len(probeLog) = maxRetries

C2_Witness ==
    /\ wpc = "done"
    /\ maxRetries = 3
    /\ ~Is200(script[1])
    /\ Is200(script[2])
    /\ Len(probeLog) = 2
    /\ werr.nil

\* C3 as stated: every failed probe is followed by a sleep of 2 seconds, so a
\* call in which k probes fail has slept k times when it returns.
C3_SleepAfterEveryFailedProbe ==
    wpc = "done"
        => /\ \A j \in DOMAIN sleepLog : sleepLog[j] = 2
           /\ Len(sleepLog) = Cardinality({j \in DOMAIN probeLog : Failed(probeLog[j])})

\* C3 as amended: every sleep lasts 2 seconds, and a failed probe is followed
\* by a sleep exactly when it is not the maxRetries-th probe: a call in which
\* k probes fail has slept k times when it returns success and
\* maxRetries - 1 times when all maxRetries >= 1 probes failed.
C3_SleepAfterFailedProbeButLast ==
    wpc \in {"loop", "done"}
        => /\ \A j \in DOMAIN sleepLog : sleepLog[j] = 2
           /\ Len(sleepLog)
                = Cardinality({j \in DOMAIN probeLog : Failed(probeLog[j]) /\ j < maxRetries})

C3_Witness ==
    /\ wpc = "done"
    /\ maxRetries = 3
    /\ Len(probeLog) = 3
    /\ \A j \in DOMAIN probeLog : Failed(probeLog[j])
    /\ sleepLog = <<2, 2>>

\* C4: checkCatalogHTTP returns nil exactly when the GET completed with
\* status 200; a transport error and every other status (204, 301, 404, 500)
\* give an error.
C4_ReadyIffStatus200 ==
    \A j \in DOMAIN probeLog :
        probeLog[j].err.nil <=> (probeLog[j].resp.transport /\ probeLog[j].resp.status = 200)

C4_Witness ==
    /\ Len(probeLog) = 3
    /\ probeLog[1].resp = Http(204, "")
    /\ ~probeLog[1].err.nil
    /\ probeLog[2].resp = TransportError
    /\ ~probeLog[2].err.nil
    /\ probeLog[3].resp = Http(200, "")
    /\ probeLog[3].err.nil

----------------------------------------------------------------------------
(* Properties of createNamespace and createTable *)

Carries(err, piece) == \E j \in DOMAIN err.text : err.text[j] = piece

\* C5: against a catalog that answers 200 or 201 for a new namespace and 409
\* for an existing one, two createNamespace calls with the same name both
\* return nil, the second having seen 409, and the catalog holds the
\* namespace once.
C5_CreateNamespaceTwice ==
    catalogKind = "conforming"
        => \A a \in DOMAIN calls, b \in DOMAIN calls :
              (/\ a < b
               /\ calls[a].op = "createNamespace"
               /\ calls[b].op = "createNamespace"
               /\ calls[a].ns = calls[b].ns)
                  => /\ calls[a].err.nil
                     /\ calls[b].err.nil
                     /\ calls[b].resp.status = 409
                     /\ Count(nsStore, calls[a].ns) = 1

C5_Witness ==
    /\ catalogKind = "conforming"
    /\ Len(calls) = 2
    /\ calls[1].op = "createNamespace" /\ calls[1].ns = "my_data"
    /\ calls[1].resp.status = 201 /\ calls[1].err.nil
    /\ calls[2].op = "createNamespace" /\ calls[2].ns = "my_data"
    /\ calls[2].resp.status = 409 /\ calls[2].err.nil
    /\ nsStore = <<"my_data">>

\* C6: createNamespace returns nil when the status is 200, 201 or 409; for
\* every other status it returns an error that carries the status code and
\* the response body; a transport failure gives an error too.
C6_CreateNamespaceStatuses ==
    \A j \in DOMAIN calls :
        calls[j].op = "createNamespace"
            => LET r == calls[j].resp
                   e == calls[j].err
               IN  IF ~r.transport
                   THEN ~e.nil
                   ELSE IF r.status \in {200, 201, 409}
                        THEN e.nil
                        ELSE /\ ~e.nil
                             /\ Carries(e, ToString(r.status))
                             /\ Carries(e, r.body)

C6_Witness ==
    \E j \in DOMAIN calls :
        /\ calls[j].op = "createNamespace"
        /\ calls[j].resp.transport
        /\ calls[j].resp.status = 204
        /\ calls[j].resp.body # ""
        /\ ~calls[j].err.nil
        /\ Carries(calls[j].err, "204")
        /\ Carries(calls[j].err, calls[j].resp.body)

\* C7: createTable returns nil exactly when the status is 200 or 201; every
\* other status, 409 included, gives an error whose text contains the status
\* code and the response body.
C7_CreateTableStatuses ==
    \A j \in DOMAIN calls :
        calls[j].op = "createTable"
            => LET r == calls[j].resp
                   e == calls[j].err
               IN  /\ e.nil <=> (r.transport /\ r.status \in {200, 201})
                   /\ (r.transport /\ r.status \notin {200, 201})
                        => (Carries(e, ToString(r.status)) /\ Carries(e, r.body))

C7_Witness ==
    \E j \in DOMAIN calls :
        /\ calls[j].op = "createTable"
        /\ calls[j].resp.transport
        /\ calls[j].resp.status = 409
        /\ ~calls[j].err.nil
        /\ Carries(calls[j].err, "409")
        /\ Carries(calls[j].err, calls[j].resp.body)

----------------------------------------------------------------------------
(* Properties of convertDuckDBTypeToIceberg *)

\* the normalized type string matches none of the switch's cases
MatchesNoRule(typeString) ==
    LET u == ToUpper(TrimSpace(typeString))
    IN  /\ u \notin {DuckDBType.BOOLEAN, DuckDBType.TINYINT, DuckDBType.SMALLINT, DuckDBType.INTEGER, DuckDBType.BIGINT, DuckDBType.REAL,
                     DuckDBType.FLOAT, DuckDBType.DOUBLE, DuckDBType.TEXT, DuckDBType.BLOB, DuckDBType.DATE}
        /\ ~Contains(u, DuckDBType.VARCHAR)
        /\ ~Contains(u, DuckDBType.TIME)
        /\ ~Contains(u, DuckDBType.TIMESTAMP)
        /\ ~Contains(u, DuckDBType.DECIMAL)

\* C8: convertDuckDBTypeToIceberg is total: every type string gives one of the
\* eleven tokens, and a string matching no rule gives "string"; there is no
\* error result.
C8_TypeMappingTotal ==
    tpc = "done"
        => /\ icebergType \in IcebergTokens
           /\ Cardinality(IcebergTokens) = 11
           /\ MatchesNoRule(duckdbType) => icebergType = "string"

C8_Witness ==
    /\ tpc = "done"
    /\ duckdbType = <<"U", "U", "I", "D">>
    /\ MatchesNoRule(duckdbType)
    /\ icebergType = "string"

----------------------------------------------------------------------------
(* Properties of sanitizeTableName *)

Replaced == {"-", " ", "."}

\* the last position of c in str, 0 when there is none
LastIndex(str, c) ==
    IF \E j \in DOMAIN str : str[j] = c
    THEN CHOOSE j \in DOMAIN str : str[j] = c /\ \A k \in (j + 1)..Len(str) : str[k] # c
    ELSE 0

\* the base name of a path: its last element, "." for the empty path and "/"
\* for a path of slashes only
BaseName(path) ==
    IF path = <<>>
    THEN <<".">>
    ELSE LET n == CHOOSE m \in 0..Len(path) :
                     /\ \A k \in (m + 1)..Len(path) : path[k] = "/"
                     /\ m = 0 \/ path[m] # "/"
             p == SubSeq(path, 1, n)
         IN  IF n = 0 THEN <<"/">> ELSE SubSeq(p, LastIndex(p, "/") + 1, n)

\* a name without its final extension: what precedes its last '.'
WithoutFinalExt(name) ==
    IF LastIndex(name, ".") = 0 THEN name ELSE SubSeq(name, 1, LastIndex(name, ".") - 1)

ExpectedTableName(path) ==
    LET stem == WithoutFinalExt(BaseName(path))
    IN  [k \in DOMAIN stem |-> IF stem[k] \in Replaced THEN "_" ELSE stem[k]]

\* C9: sanitizeTableName is idempotent: applied to its own result it returns
\* that result.
C9_SanitizeIdempotent ==
    spc = "twice" => tableName2 = tableName

C9_Witness ==
    /\ spc = "twice"
    /\ filePath = <<"a", ".", "-", ".">>
    /\ tableName = <<"a", "_", "_">>
    /\ tableName2 = <<"a", "_", "_">>

\* C10: sanitizeTableName(path) is the base name of the path without its final
\* extension and with every '-', ' ' and '.' replaced by '_' ("a-b c.d.csv"
\* gives "a_b_c_d"); the result contains none of '-', ' ', '.'.
C10_SanitizeResult ==
    spc \in {"once", "twice"}
        => /\ tableName = ExpectedTableName(filePath)
           /\ \A k \in DOMAIN tableName : tableName[k] \notin Replaced
           /\ filePath = ExamplePath => tableName = ExampleName

C10_Witness ==
    /\ spc = "once"
    /\ filePath = ExamplePath
    /\ tableName = <<"a", "_", "b", "_", "c", "_", "d">>


Range(seq) == {seq[k] : k \in DOMAIN seq}

NoDuplicates(seq) == \A j, k \in DOMAIN seq : seq[j] = seq[k] => j = k

\* the paths of the non-directory entries of a tree that end in the extension
MatchingPaths(t, ext) ==
    {PathString(t.root, e.names) :
        e \in {x \in t.entries : ~x.dir /\ HasSuffix(NameOf(x), ext)}}

DirectoryPaths(t) ==
    {PathString(t.root, e.names) : e \in {x \in t.entries : x.dir}} \cup {t.root}

\* C11: discovery never returns a directory, a path without the target
\* extension or a path twice, and a discovery that returns without an error
\* returns every non-directory entry of the tree with the target extension,
\* at any depth.
C11_DiscoveryExact ==
    fpc = "done" =>
        /\ NoDuplicates(found)
        /\ Range(found) \subseteq MatchingPaths(tree, targetExt)
        /\ Range(found) \cap DirectoryPaths(tree) = {}
        /\ ~ferr => Range(found) = MatchingPaths(tree, targetExt)

\* a tree with a matching file at the top, one two levels down, a directory
\* whose name has the extension and files of other extensions
C11_Witness ==
    /\ fpc = "done"
    /\ ~ferr
    /\ targetExt = ExtParquet
    /\ Dir(<<Names.sub, Names.deep>>) \in tree.entries
    /\ File(<<Names.sub, Names.e_csv>>) \in tree.entries
    /\ Len(found) = 2
    /\ PathString(DataDir, <<Names.sub, Names.deep, Names.g_parquet>>) \in Range(found)

IsPrefix(short, long) ==
    /\ Len(short) <= Len(long)
    /\ short = SubSeq(long, 1, Len(short))

Printed(tag) == \E k \in DOMAIN printed : printed[k].tag = tag

\* the run is at the statement a failed step of the body leads to
ReachedOnFailure(step) ==
    IF step.fail \in {"next", "counted"}
    THEN dpc' = "loop" /\ fi' = fi + 1 /\ successCount' = successCount
    ELSE dpc' = step.fail

\* C12: in every driver the files whose iteration has begun are the first
\* files discovered, in discovery order and each once; a step whose failure
\* ends the iteration (or falls back) prints the failure, moves to the next
\* file (or the fallback) and leaves the run going; and a run that reached the
\* file loop ends with every discovered file attempted, the closing lines
\* printed and exit status 0.
C12_EveryFileAttemptedOnce ==
    /\ [](driver # "none" =>
            /\ IsPrefix(attempts, found)
            /\ dpc = "loop" => Len(attempts) = fi - 1
            /\ AtStep => Len(attempts) = fi
            /\ (dpc = "exit" /\ attempts # <<>>) =>
                   /\ attempts = found
                   /\ Printed("all processed")
                   /\ exitCode = 0)
    /\ [][(AtStep /\ Flow(driver)[dpc].ok # Flow(driver)[dpc].fail
                  /\ ReachedOnFailure(Flow(driver)[dpc]))
            => /\ printed' \in {Append(printed, Failure(dpc)), Append(printed, Skipped(fi))}
               /\ exitCode' = -1]_vars

\* a run over two files in which the load of the first failed
C12_Witness ==
    /\ dpc = "exit"
    /\ Len(found) = 2
    /\ attempts = found
    /\ printed[2] = [tag |-> "failed: create", n |-> 1]
    /\ Printed("all processed")
    /\ exitCode = 0

\* C13: in the CSV drivers, whenever the loop is between two files (or past
\* the last), the engine holds no temp table: the temp table of every file
\* processed so far has been dropped, however its processing ended.
C13_NoTempTableBetweenFiles ==
    (driver \in CSVDrivers /\ dpc = "loop") => tables = {}

\* the readiness poll of the run has returned its error
PollExhausted == driver \in CatalogDrivers /\ wpc = "done" /\ werr # Nil

\* C14: once the readiness poll of a catalog driver (10 probes in
\* create_iceberg_tables, 5 in parquet_to_iceberg) is exhausted, the run can
\* only end, by log.Fatal with exit status 1, and no namespace or table
\* request has been or is ever sent and no file is attempted.
C14_ExhaustedPollIsFatal ==
    PollExhausted =>
        /\ Len(probeLog) = RetriesOf(driver)
        /\ posts = <<>>
        /\ attempts = <<>>
        /\ dpc \in {"waiting", "exit"}
        /\ dpc = "exit" => (exitCode = 1 /\ fatal = "catalog")

C14_Witness ==
    /\ PollExhausted
    /\ driver = "parquet_to_iceberg"
    /\ dpc = "exit"
    /\ Len(found) = 2
    /\ \A k \in DOMAIN probeLog : ~probeLog[k].resp.transport

\* the table requests among the POSTs of the run, in order
TablePosts == SelectSeq(posts, LAMBDA q : q.op = "table")

\* the namespace request of the run was answered with what createNamespace
\* reports as an error
NamespaceFailed ==
    /\ driver \in CatalogDrivers
    /\ posts # <<>>
    /\ posts[1].op = "namespace"
    /\ createNamespace(posts[1].resp) # Nil

\* C15: when createNamespace returns an error, a catalog driver prints a
\* warning and goes on: the run is not ended by it, and it ends with one
\* table request sent for every discovered file, in discovery order, and
\* exit status 0.
C15_NamespaceErrorNotFatal ==
    NamespaceFailed =>
        /\ Printed("namespace not created")
        /\ fatal = "none"
        /\ exitCode \in {-1, 0}
        /\ dpc = "exit" =>
              /\ exitCode = 0
              /\ Len(TablePosts) = Len(found)
              /\ \A k \in DOMAIN found :
                    TablePosts[k].name = sanitizeTableName(found[k])

C15_Witness ==
    /\ NamespaceFailed
    /\ posts[1].resp = Http(500, "")
    /\ dpc = "exit"
    /\ Len(found) = 2
    /\ Len(TablePosts) = 2
    /\ successCount = 2

\* the run found its input root missing and has ended
EndedOnMissingRoot == dpc = "exit" /\ Printed("root does not exist")

\* C16 as stated: a driver that finds its input root missing creates it,
\* tells the user to populate it and exits with status 0 without processing
\* any file.
C16_MissingRootCreated ==
    EndedOnMissingRoot =>
        /\ tree.exists
        /\ Printed("place your files in data")
        /\ exitCode = 0
        /\ attempts = <<>>

\* C16 amended: a driver that finds its input root missing processes no file
\* and sends no catalog request.  csv_to_parquet, csv_to_iceberg and the
\* parquet loader call MkdirAll on it: when that succeeds they tell the user
\* to place files there and exit with status 0, when it fails they exit with
\* status 1.  create_iceberg_tables and parquet_to_iceberg do not create it:
\* they tell the user to run csv-to-parquet first and exit with status 0.
C16_MissingRootHandled ==
    EndedOnMissingRoot =>
        /\ attempts = <<>>
        /\ posts = <<>>
        /\ probeLog = <<>>
        /\ tables = {}
        /\ IF driver \in CatalogDrivers
           THEN /\ ~tree.exists
                /\ dirsMade = {}
                /\ Printed("run csv-to-parquet first")
                /\ exitCode = 0
           ELSE \/ /\ tree.exists
                   /\ dirsMade = {"data"}
                   /\ Printed("place your files in data")
                   /\ exitCode = 0
                \/ /\ ~tree.exists
                   /\ dirsMade = {}
                   /\ exitCode = 1
                   /\ fatal = "mkdir"

C16_Witness ==
    /\ EndedOnMissingRoot
    /\ driver = "create_iceberg_tables"
    /\ ~tree.exists
    /\ exitCode = 0

\* the run got past the engine and the root test, its discovery returned no
\* file and no error, and it has ended
EndedOnNoFiles ==
    /\ driver # "none"
    /\ dpc = "exit"
    /\ fatal # "engine"
    /\ ~Printed("root does not exist")
    /\ Discover(driver, tree) = [files |-> <<>>, err |-> FALSE]

\* the statements that load, read or export data
DataOps == TableOps \cup FileOps \cup {"describe file", "count rows"}

\* C17: a driver whose discovery returns zero files prints that none was
\* found and exits with status 0 having created no directory, executed no
\* statement that loads, reads or exports data, attempted no file and sent
\* nothing to the catalog, not even a readiness probe.
C17_NoFilesIsNoOp ==
    EndedOnNoFiles =>
        /\ Printed("no files found")
        /\ exitCode = 0
        /\ dirsMade = {}
        /\ attempts = <<>>
        /\ tables = {}
        /\ \A k \in DOMAIN sqlLog : sqlLog[k].op \notin DataOps
        /\ posts = <<>>
        /\ probeLog = <<>>

\* a root that holds only a file of another extension
C17_Witness ==
    /\ EndedOnNoFiles
    /\ tree.entries = {File(<<Names.b_txt>>)}
    /\ driver = "csv_to_iceberg"
    /\ Len(sqlLog) = 4

\* the numbers printed as "files processed", in order
ProcessedLines == SelectSeq(printed, LAMBDA line : line.tag = "files processed")

\* csv_to_parquet got to its file loop: the output directory was made
ReachedCSVToParquetLoop ==
    driver = "csv_to_parquet" /\ OutDirOf(driver) \in dirsMade

\* C18: a run of csv_to_parquet that reached its file loop cannot end before
\* the closing lines, and when it has ended it has printed the summary once,
\* with "CSV files processed" equal to the number of CSV files discovered,
\* whatever happened to the files.
C18_SummaryCountsDiscoveredFiles ==
    ReachedCSVToParquetLoop =>
        /\ fatal = "none"
        /\ IF dpc = "exit"
           THEN /\ exitCode = 0
                /\ Printed("all processed")
                /\ ProcessedLines = <<Pn("files processed", Len(found))>>
           ELSE ProcessedLines = <<>>

\* two files discovered, the load of both failed
C18_Witness ==
    /\ ReachedCSVToParquetLoop
    /\ dpc = "exit"
    /\ Len(found) = 2
    /\ tables = {}
    /\ Printed("failed: create")
    /\ ~Printed("failed: count")
    /\ Len(sqlLog) = 2

Ended == driver # "none" /\ dpc = "exit"

\* C19 as stated: a run ends with a non-zero exit status only if the engine
\* could not be opened or a required directory could not be created.
C19_NonZeroOnlyEngineOrDirectory ==
    (Ended /\ exitCode # 0) => fatal \in {"engine", "mkdir"}

\* C19 amended: a run ends with exit status 1 exactly when it was ended by
\* log.Fatal, which happens for four causes only: the engine could not be
\* opened, a directory (the missing input root or the output directory)
\* could not be created, discovery returned an error, or the readiness poll
\* of a catalog driver was exhausted; discovery errors and exhausted polls
\* always end the run so.  Every other run ends with exit status 0.
C19_NonZeroExitCauses ==
    Ended =>
        /\ exitCode \in {0, 1}
        /\ exitCode = 1 <=> fatal # "none"
        /\ fatal \in {"none", "engine", "mkdir", "find", "catalog"}
        /\ fatal = "find" <=> ferr
        /\ fatal = "catalog" <=> PollExhausted
        /\ fatal = "engine" => (sqlLog = <<>> /\ found = <<>> /\ dirsMade = {})
        /\ fatal = "mkdir" => (attempts = <<>> /\ driver \notin CatalogDrivers)

\* the walk met a subdirectory it could not read
C19_Witness ==
    /\ Ended
    /\ exitCode = 1
    /\ fatal = "find"
    /\ tree.unreadable = {<<Names.sub>>}
    /\ Len(found) = 1

\* an identifier as the sanitizer leaves one: without '-', ' ' and '.'
Sanitized(ident) == \A k \in DOMAIN ident : ident[k] \notin Replaced

\* C20: every table name in a statement executed on the engine, and every
\* table name and field name in a table request sent to the catalog, is
\* without '-', ' ' and '.', as the name sanitizer leaves it.
C20_IdentifiersSanitized ==
    driver # "none" =>
        /\ \A k \in DOMAIN sqlLog : Sanitized(sqlLog[k].ident)
        /\ \A k \in DOMAIN posts :
              posts[k].op = "table" =>
                  /\ Sanitized(posts[k].name)
                  /\ \A j \in DOMAIN posts[k].schema.fields :
                        Sanitized(posts[k].schema.fields[j].name)

\* C21: the parquet loader prints every row of each table it loads: whenever
\* it has printed the rows of a table, the number of data rows printed is
\* the number of rows the table holds.
C21_EveryRowPrinted ==
    driver = "parquet_loader" =>
        \A k \in DOMAIN printed :
            printed[k].tag = "data rows printed" =>
                /\ printed[k - 1].tag = "table contains rows"
                /\ printed[k].n = printed[k - 1].n

\* the outputs written from a file
OutputsFrom(path) == {o \in outFiles : o.from = path}

\* the file at index k failed at a step
FailedAt(k, step) ==
    \E j \in DOMAIN printed : printed[j] = [tag |-> "failed: " \o step, n |-> k]

IndexOf(path) == CHOOSE k \in DOMAIN found : found[k] = path

\* C22: for each file that csv_to_iceberg brings to its export (the file was
\* loaded and counted), the Iceberg COPY is attempted first, the Parquet
\* COPY to <name>.parquet is attempted exactly when the Iceberg COPY failed
\* and is what writes the Parquet output, the rest of the body is skipped
\* only when both failed, and no file has both an Iceberg and a Parquet
\* output.
C22_ParquetOnlyAsFallback ==
    /\ [](driver = "csv_to_iceberg" =>
            /\ dpc = "copy" => OutputsFrom(found[fi]) = {}
            /\ dpc = "fallback" =>
                  /\ printed[Len(printed)] = Failure("copy")
                  /\ OutputsFrom(found[fi]) = {}
            /\ dpc = "sample" =>
                  /\ Cardinality(OutputsFrom(found[fi])) = 1
                  /\ \A o \in OutputsFrom(found[fi]) :
                        o.name = sanitizeTableName(found[fi])
            /\ \A o \in outFiles :
                  /\ o.format = "parquet" <=> FailedAt(IndexOf(o.from), "copy")
                  /\ ~FailedAt(IndexOf(o.from), "fallback")
            /\ \A k \in DOMAIN found :
                  Cardinality({o.format : o \in OutputsFrom(found[k])}) <= 1)
    /\ [][(driver = "csv_to_iceberg" /\ dpc \in {"copy", "fallback"}) =>
            \/ /\ dpc' = "sample"
               /\ outFiles' = Written(outFiles,
                                Output(sanitizeTableName(found[fi]),
                                       IF dpc = "copy" THEN "iceberg" ELSE "parquet",
                                       found[fi]))
               /\ printed' = printed
            \/ /\ printed' = Append(printed, Failure(dpc))
               /\ outFiles' = outFiles
               /\ IF dpc = "copy" THEN dpc' = "fallback" /\ fi' = fi
                                  ELSE dpc' = "loop" /\ fi' = fi + 1]_vars

\* a run of two files: the first exported as Iceberg, the second as Parquet
C22_Witness ==
    /\ driver = "csv_to_iceberg"
    /\ dpc = "exit"
    /\ Len(found) = 2
    /\ \E o \in OutputsFrom(found[1]) : o.format = "iceberg"
    /\ \E o \in OutputsFrom(found[2]) : o.format = "parquet"
    /\ tables = {}

\* C23: convertDuckDBTypeToIceberg gives "timestamp" for every type string
\* that contains TIMESTAMP (TIMESTAMP, TIMESTAMP WITH TIME ZONE) and "time"
\* for the type TIME.
C23_TimestampMapsToTimestamp ==
    tpc = "done" =>
        LET typeUpper == ToUpper(TrimSpace(duckdbType))
        IN  /\ Contains(typeUpper, DuckDBType.TIMESTAMP) => icebergType = "timestamp"
            /\ typeUpper = DuckDBType.TIME => icebergType = "time"

NamespacePosts == SelectSeq(posts, LAMBDA q : q.op = "namespace")

\* the run is in or past its file loop
InOrPastLoop == dpc = "loop" \/ AtStep \/ (dpc = "exit" /\ Printed("all processed"))

\* C24: in a catalog driver run a POST is sent only after a readiness probe
\* was answered 200 (the last probe made); the first POST is the namespace
\* request and every later one is a table request, so the namespace request
\* precedes all table requests; at most one namespace request is sent, and
\* exactly one by a run that gets to its file loop.
C24_ProbeThenNamespaceThenTables ==
    driver \in CatalogDrivers =>
        /\ posts # <<>> =>
              /\ probeLog # <<>>
              /\ Is200(probeLog[Len(probeLog)].resp)
              /\ posts[1].op = "namespace"
              /\ \A k \in 2..Len(posts) : posts[k].op = "table"
        /\ Len(NamespacePosts) <= 1
        /\ InOrPastLoop => Len(NamespacePosts) = 1

\* the catalog became ready at the third probe
C24_Witness ==
    /\ driver = "create_iceberg_tables"
    /\ dpc = "exit"
    /\ Len(probeLog) = 3
    /\ Len(posts) = 3
    /\ Len(TablePosts) = 2

\* C25: create_iceberg_tables sends one table request for each discovered
\* file and never a second one: the requests sent so far are those of the
\* files the loop has passed, in discovery order, whether or not the row
\* count or the schema inspection of a file failed.
C25_OneTableRequestPerFile ==
    driver = "create_iceberg_tables" =>
        /\ Len(TablePosts) <= Len(found)
        /\ \A k \in DOMAIN TablePosts : TablePosts[k].name = sanitizeTableName(found[k])
        /\ dpc = "loop" => Len(TablePosts) = fi - 1
        /\ dpc \in {"count", "schema", "post"} => Len(TablePosts) = fi - 1
        /\ dpc = "sample" => Len(TablePosts) = fi
        /\ (dpc = "exit" /\ Printed("all processed")) => Len(TablePosts) = Len(found)

\* the row count and the schema inspection of the first file failed
C25_Witness ==
    /\ driver = "create_iceberg_tables"
    /\ dpc = "exit"
    /\ Len(found) = 2
    /\ FailedAt(1, "count")
    /\ FailedAt(1, "schema")
    /\ Len(TablePosts) = 2

\* the table requests the catalog answered 200 or 201
AcceptedTablePosts ==
    SelectSeq(TablePosts, LAMBDA q : q.resp.transport /\ q.resp.status \in {200, 201})

CreatedLines == SelectSeq(printed, LAMBDA line : line.tag = "tables created")

\* C26: in a catalog driver the counter of created tables never exceeds the
\* number of files attempted (nor the number of accepted table requests),
\* and the closing lines report as "Iceberg tables created" the number of
\* table requests answered 200 or 201, whether or not the preview of a
\* file failed.
C26_CreatedCountIsAcceptedRequests ==
    driver \in CatalogDrivers =>
        /\ successCount <= Len(attempts)
        /\ successCount <= Len(AcceptedTablePosts)
        /\ dpc = "loop" => successCount = Len(AcceptedTablePosts)
        /\ (dpc = "exit" /\ Printed("all processed")) =>
              CreatedLines = <<Pn("tables created", Len(AcceptedTablePosts))>>

\* the first table was created and its preview failed, the second was refused
C26_Witness ==
    /\ driver = "create_iceberg_tables"
    /\ dpc = "exit"
    /\ Len(found) = 2
    /\ FailedAt(1, "sample")
    /\ FailedAt(2, "post")
    /\ CreatedLines = <<Pn("tables created", 1)>>

----------------------------------------------------------------------------
(* A second run against the catalog a fully successful run left.           *)

\* the namespace and the tables a fully successful run leaves in a
\* conforming catalog
LeftByFirstRun ==
    <<NamespaceName>> \o [k \in 1..Len(found) |-> TableNameOf(driver, found[k])]

\* the items of a conforming catalog after the requests of the run from the
\* k-th on
RECURSIVE CatalogAfter(_, _)
CatalogAfter(store, k) ==
    IF k > Len(posts) THEN store
    ELSE CatalogAfter(StoreAfter("conforming", store, posts[k].name, posts[k].resp), k + 1)

SkippedLines == SelectSeq(printed, LAMBDA line : line.tag = Skipped(0).tag)

\* a run of create_iceberg_tables that went through its file loop with every
\* request answered 409
SecondRun ==
    /\ driver = "create_iceberg_tables"
    /\ Ended
    /\ Printed("all processed")
    /\ \A k \in DOMAIN posts : posts[k].resp.transport /\ posts[k].resp.status = 409

\* C27: a run of create_iceberg_tables in which the namespace request and
\* every table request are answered 409 attempts every discovered file,
\* sends one table request per file, prints the "already exists, skipping"
\* line for each file and no failure of the table request, reports 0 Iceberg
\* tables created, exits 0, and leaves a conforming catalog as it was.
C27_SecondRunSkipsEveryTable ==
    SecondRun =>
        /\ attempts = found
        /\ Len(NamespacePosts) = 1
        /\ [k \in 1..Len(TablePosts) |-> TablePosts[k].name]
              = [k \in 1..Len(found) |-> TableNameOf(driver, found[k])]
        /\ SkippedLines = [k \in 1..Len(found) |-> Skipped(k)]
        /\ \A k \in DOMAIN printed : printed[k].tag # Failure("post").tag
        /\ successCount = 0
        /\ CreatedLines = <<Pn("tables created", 0)>>
        /\ exitCode = 0
        /\ CatalogAfter(LeftByFirstRun, 1) = LeftByFirstRun

C27_Witness == SecondRun /\ Len(found) >= 2 /\ Len(SkippedLines) = Len(found)

----------------------------------------------------------------------------
(* The schema sent with a table request.                                   *)

\* the three fields of the fixed template, written out
BasicTemplate ==
    [type |-> "struct", schemaId |-> 0,
     fields |-> <<[id |-> 1, name |-> FieldName.id, required |-> FALSE, type |-> "long"],
                  [id |-> 2, name |-> FieldName.data, required |-> FALSE, type |-> "string"],
                  [id |-> 3, name |-> FieldName.timestamp, required |-> FALSE,
                   type |-> "timestamp"]>>]

\* the inspection of the current file was run and failed: the query, a row
\* scan or the row iteration reported an error, or no column came back
InspectionFailed ==
    /\ driver = "create_iceberg_tables"
    /\ AtStep
    /\ columns # NotDescribed
    /\ (columns.err \in DescribeErrors \/ columns.columns = <<>>)

\* C28: in create_iceberg_tables, when the schema inspection of a file fails
\* (query error, row scan error, row iteration error or zero columns) the
\* iteration goes on to the table request instead of ending, the schema of
\* the file is the fixed template of three non-required fields (1 id: long,
\* 2 data: string, 3 timestamp: timestamp), the same for every table name,
\* and the table request of the file carries the file's table name and that
\* template.
C28_TemplateOnFailedInspection ==
    /\ [](InspectionFailed => dpc \in {"post", "sample"} /\ icebergSchema = BasicTemplate)
    /\ [][(driver = "create_iceberg_tables" /\ dpc = "schema" /\ dpc' # "schema"
             /\ (columns'.err \in DescribeErrors \/ columns'.columns = <<>>))
            => dpc' = "post" /\ fi' = fi /\ icebergSchema' = BasicTemplate]_vars
    /\ [][(InspectionFailed /\ Len(posts') = Len(posts) + 1)
            => /\ posts'[Len(posts')].op = "table"
               /\ posts'[Len(posts')].name = sanitizeTableName(found[fi])
               /\ posts'[Len(posts')].schema = BasicTemplate]_vars

\* the second file of a run, inspected with no column back, after a first
\* file of another table name whose request carried the template
C28_Witness ==
    /\ InspectionFailed
    /\ columns.columns = <<>> /\ columns.err = "none"
    /\ fi = 2
    /\ Len(TablePosts) = 1
    /\ TablePosts[1].schema = BasicTemplate
    /\ TablePosts[1].name # sanitizeTableName(found[2])

\* the inspection of the current file was run and gave at least one column
Inspected ==
    /\ driver = "create_iceberg_tables"
    /\ AtStep
    /\ columns.err = "none"
    /\ Len(columns.columns) >= 1

\* C29: for a file inspected without error and with n >= 1 columns, the
\* schema built has type "struct", schema-id 0 and exactly n fields in the
\* order of the columns; the i-th field has id i and the name of the i-th
\* column, and is required exactly when the nullability flag of that column
\* is "NO"; so the ids are distinct and consecutive from 1.
C29_SchemaFollowsColumns ==
    Inspected =>
        LET cols == columns.columns
            flds == icebergSchema.fields
        IN  /\ icebergSchema.type = "struct"
            /\ icebergSchema.schemaId = 0
            /\ Len(flds) = Len(cols)
            /\ \A k \in DOMAIN flds :
                  /\ flds[k].id = k
                  /\ flds[k].name = cols[k].Name
                  /\ flds[k].required = (cols[k].Null = "NO")
            /\ \A j, k \in DOMAIN flds : flds[j].id = flds[k].id => j = k

\* two columns, the first nullable and the second not, and the request of
\* the file sent with the schema made from them
C29_Witness ==
    /\ Inspected
    /\ dpc = "sample"
    /\ Len(columns.columns) = 2
    /\ columns.columns[1].Null = "YES"
    /\ columns.columns[2].Null = "NO"
    /\ posts[Len(posts)].schema = icebergSchema
    /\ icebergSchema.fields[2].required
    /\ ~icebergSchema.fields[1].required

----------------------------------------------------------------------------
(* Two CSV files of one sanitized name.                                    *)

\* the steps of csv_to_parquet up to and including the COPY
ConvertSteps == {"abs_in", "create", "count", "abs_out", "copy"}

\* the indexes of the files csv_to_parquet has converted: the COPY of the
\* file was run and neither it nor a step before it failed
ConvertedFiles ==
    {k \in DOMAIN found :
        /\ k <= Len(attempts)
        /\ (k < fi \/ dpc \in {"sample", "drop"})
        /\ \A step \in ConvertSteps : ~FailedAt(k, step)}

\* the last converted file of a sanitized name
LastConverted(name) ==
    CHOOSE k \in ConvertedFiles :
        /\ sanitizeTableName(found[k]) = name
        /\ \A j \in ConvertedFiles : sanitizeTableName(found[j]) = name => j <= k

\* no step of the run reported a failure
NoFailureReported ==
    \A j \in DOMAIN printed : \A step \in DOMAIN Flow(driver) :
        printed[j].tag # Failure(step).tag

\* C30: in csv_to_parquet the outputs written are as many as the distinct
\* sanitized names among the files converted so far, each output
\* <name>.parquet holding the data of the last converted file of that name;
\* so a run over two files of one sanitized name in which no step fails
\* ends with exit status 0 and the single output <name>.parquet holding the
\* data of the file processed second.
C30_OneOutputPerSanitizedName ==
    driver = "csv_to_parquet" =>
        /\ Cardinality(outFiles)
              = Cardinality({sanitizeTableName(found[k]) : k \in ConvertedFiles})
        /\ \A o \in outFiles :
              /\ o.format = "parquet"
              /\ \E k \in ConvertedFiles : sanitizeTableName(found[k]) = o.name
              /\ o.from = found[LastConverted(o.name)]
        /\ (Ended /\ Len(found) = 2 /\ attempts = found /\ NoFailureReported
              /\ sanitizeTableName(found[1]) = sanitizeTableName(found[2]))
            => /\ exitCode = 0
               /\ outFiles = {Output(sanitizeTableName(found[2]), "parquet", found[2])}

C30_Witness ==
    /\ driver = "csv_to_parquet"
    /\ Ended
    /\ Len(found) = 2
    /\ found[1] # found[2]
    /\ sanitizeTableName(found[1]) = sanitizeTableName(found[2])
    /\ ConvertedFiles = {1, 2}
    /\ NoFailureReported
    /\ Cardinality(outFiles) = 1
    /\ \A o \in outFiles : o.from = found[2]

====
